---- MODULE Spec2Model ----
(***************************************************************************)
(* Real-Time-Retail-Analytics: the anomaly detector                        *)
(* (src/anomaly_detector.py) and the customer segmentation                 *)
(* (src/customer_segmentation.py) over an in-memory transaction table.     *)
(*                                                                         *)
(* A transaction table is a sequence of rows; the pandas index of row i is *)
(* its position i (the application builds its table with                   *)
(* ignore_index=True, src/app.py:353).  Amounts are whole dollars, so      *)
(* every mean, variance and quantile below is an exact rational; the       *)
(* comparisons the code makes in floating point are made exactly here.     *)
(***************************************************************************)
EXTENDS Integers, Sequences, FiniteSets, TLC

(***************************************************************************)
(* Bounds of the model.                                                    *)
(***************************************************************************)
MaxRows == 20
MaxOdd == 2

(***************************************************************************)
(* Program constants.                                                      *)
(***************************************************************************)
ZThreshold == 3
IqrMultiplier == 3
EarliestHour == 6
LatestHour == 23
MinSamples == 10

(***************************************************************************)
(* The values a row's columns are drawn from.                              *)
(***************************************************************************)
Amounts == {20, 40, 1000}
Quantities == {1, 40}
Times == {<<5, 30>>, <<12, 0>>, <<23, 30>>}

Row(c, d, t, a, q) ==
    [customer_id |-> c, day |-> d, hour |-> t[1], minute |-> t[2],
     total_amount |-> a, quantity |-> q]

(***************************************************************************)
(* Arithmetic helpers.                                                     *)
(***************************************************************************)
Abs(x) == IF x < 0 THEN -x ELSE x

RECURSIVE SumSeq(_)
SumSeq(s) == IF s = <<>> THEN 0 ELSE Head(s) + SumSeq(Tail(s))

\* the sequence <<f[1], .., f[n]>>, each element evaluated once
RECURSIVE AsSeq(_, _)
AsSeq(f, n) == IF n = 0 THEN <<>> ELSE Append(AsSeq(f, n - 1), f[n])

\* the function f restricted to S, each value evaluated once
RECURSIVE AsFcn(_, _)
AsFcn(f, S) ==
    IF S = {} THEN <<>>
    ELSE LET x == CHOOSE y \in S : TRUE
         IN  (x :> f[x]) @@ AsFcn(f, S \ {x})

\* a * b > c * d for naturals, decided without forming the products
\* (the comparison of a/c with d/b by their continued fractions).
RECURSIVE ProdGT(_, _, _, _)
ProdGT(a, b, c, d) ==
    IF a = 0 \/ b = 0 THEN FALSE
    ELSE IF c = 0 \/ d = 0 THEN TRUE
    ELSE LET q1 == a \div c
             q2 == d \div b
         IN  IF q1 # q2 THEN q1 > q2
             ELSE ProdGT(b, a % c, d % b, c)

ProdEQ(a, b, c, d) == ~ProdGT(a, b, c, d) /\ ~ProdGT(c, d, a, b)

(***************************************************************************)
(* pandas Series statistics of a column (a sequence of integers).          *)
(***************************************************************************)
Column(data_, f) == AsSeq([i \in 1..Len(data_) |-> data_[i][f]], Len(data_))

\* n * sum(x^2) - sum(x)^2 = n * (n - 1) * (sample variance)
VarN(col) ==
    Len(col) * SumSeq([i \in 1..Len(col) |-> col[i] * col[i]])
        - SumSeq(col) * SumSeq(col)

\* Series.std() > 0: NaN for fewer than two values, and NaN > 0 is False
StdPositive(col) == Len(col) >= 2 /\ VarN(col) > 0

\* the k-th smallest value of the column, k in 1..Len(col)
Kth(col, k) ==
    CHOOSE v \in {col[i] : i \in 1..Len(col)} :
        /\ Cardinality({j \in 1..Len(col) : col[j] < v}) < k
        /\ k <= Cardinality({j \in 1..Len(col) : col[j] <= v})

\* the column in ascending order
SortedValues(col) == AsSeq([k \in 1..Len(col) |-> Kth(col, k)], Len(col))

\* den * Series.quantile(num / den) of a column given in ascending order,
\* by linear interpolation; the column is not empty
QuantileTimes(sorted, num, den) ==
    LET pos == (Len(sorted) - 1) * num
        i == pos \div den
        r == pos % den
    IN  IF r = 0 THEN den * sorted[i + 1]
        ELSE den * sorted[i + 1] + r * (sorted[i + 2] - sorted[i + 1])

\* np.abs((x - mean) / std) of value x against a column of n values with
\* the given sum and varn, as the exact rational
\* z^2 = dev^2 * (n - 1) / (n * varn)
ZScoreOf(n, sum, varn, x) == [dev |-> Abs(n * x - sum), n |-> n, varn |-> varn]

ZScore(col, x) == ZScoreOf(Len(col), SumSeq(col), VarN(col), x)

\* z > t, for a whole number t
ZGreater(z, t) == ProdGT(z.dev * z.dev, z.n - 1, t * t * z.n, z.varn)

\* the rows of the column whose z-score against the column exceeds t
ZOutliers(col, t) ==
    LET n == Len(col)
        sum == SumSeq(col)
        varn == VarN(col)
    IN  {i \in 1..n : ZGreater(ZScoreOf(n, sum, varn, col[i]), t)}

(***************************************************************************)
(* State.                                                                  *)
(*   data       the transaction table handed to the analytics calls        *)
(*   absent     the columns the table lacks (its rows' values for them     *)
(*              are then not there to be read)                             *)
(*   forest     the rows IsolationForest(random_state=42).fit_predict      *)
(*              labels -1 on this table: a fixed function of the table,    *)
(*              unknown to the model, so drawn once with the table         *)
(*   results    per method name, what detect_anomalies last returned       *)
(*   det_fitted whether the detector's scaler and forest have been fitted  *)
(*   rfm_out    what calculate_rfm_metrics last yielded                    *)
(*   seg_out    what segment_customers last yielded                        *)
(*   is_fitted, kmeans_model                                               *)
(*              the fields of CustomerSegmentation (kmeans_model is the    *)
(*              cluster count of the model held, 0 for None)               *)
(*   new_transaction, threshold_std                                        *)
(*              the candidate and the threshold handed to                  *)
(*              detect_real_time_anomalies, with data as its history       *)
(*   rt_out     what detect_real_time_anomalies last yielded               *)
(*   cluster_summary, names_out                                            *)
(*              the table handed to _assign_segment_names and what it      *)
(*              returned                                                   *)
(*   sales_data, is_streaming, last_update                                 *)
(*              the fields of st.session_state the streaming code uses     *)
(*   clock      datetime.now(), counted in calls of generate_batch         *)
(*   pc         where the streaming thread and the script run of the UI    *)
(*              stand in stream_data and generate_data_batch               *)
(*   batch_data, staged                                                    *)
(*              per thread, the batch it generated and the table it has    *)
(*              computed and not yet stored                                *)
(*   evicted    per thread, the rows its latest tail(1000) left out        *)
(*   generated_report, report_error                                        *)
(*              the stored report and the exception that ended the latest  *)
(*              report handler                                             *)
(*   table_frame  the caller's table object: its columns and those         *)
(*              assigned in place                                          *)
(*   metrics_out, features_out                                             *)
(*              the results of calculate_metrics and of _prepare_features  *)
(*              applied to its own output                                  *)
(***************************************************************************)
VARIABLES data, absent, forest, results, det_fitted, rfm_out, seg_out,
          is_fitted, kmeans_model, new_transaction, threshold_std, rt_out,
          cluster_summary, names_out,
          sales_data, is_streaming, last_update, clock, pc, batch_data, staged,
          evicted, streaming_thread, after_stop, generated_report,
          report_error, table_frame, metrics_out, features_out

vars ==
    <<data, absent, forest, results, det_fitted, rfm_out, seg_out, is_fitted,
      kmeans_model, new_transaction, threshold_std, rt_out,
      cluster_summary, names_out,
      sales_data, is_streaming, last_update, clock, pc, batch_data, staged,
      evicted, streaming_thread, after_stop, generated_report,
      report_error, table_frame, metrics_out, features_out>>

rtVars == <<new_transaction, threshold_std, rt_out>>

nameVars == <<cluster_summary, names_out>>

streamVars ==
    <<sales_data, is_streaming, last_update, clock, pc, batch_data, staged,
      evicted, streaming_thread, after_stop>>

reportVars == <<generated_report, report_error>>

metricVars == <<metrics_out, features_out>>

detVars == <<absent, forest, results, det_fitted>>

segVars == <<rfm_out, seg_out, is_fitted, kmeans_model>>

Methods == {"isolation_forest", "statistical", "combined"}

\* the method names a caller passes: the supported ones and one that is not
MethodNames == Methods \cup {"dbscan"}

NotCalled == [outcome |-> "not_called"]

\* the call left by an exception
Raised(error) == [outcome |-> "raised", error |-> error]

\* A returned DataFrame of anomalies: index label |-> anomaly_score.
\* pd.DataFrame() is the frame with the empty index.
Returned(frame) == [outcome |-> "returned", frame |-> frame]

EmptyFrame == [i \in {} |-> 0]

\* anomaly_score values
FixedScore(tenths) == [kind |-> "fixed", tenths |-> tenths]

ZScoreValue(z) == [kind |-> "zscore", z |-> z]

ForestScore == [kind |-> "decision_function"]

(***************************************************************************)
(* AnomalyDetector._statistical_detection, rule by rule.                   *)
(***************************************************************************)

\* faulty variant: the amount rule with the threshold one deviation higher
AmountAnomaliesStrict(data_) ==
    LET col == Column(data_, "total_amount")
    IN  IF StdPositive(col) THEN ZOutliers(col, ZThreshold + 1) ELSE {}

AmountAnomalies(data_) ==
    LET col == Column(data_, "total_amount")
    IN  IF StdPositive(col)
        THEN ZOutliers(col, ZThreshold)
        ELSE {}


\* faulty variant: the IQR rule without its IQR > 0 guard
IqrAnomaliesUnguarded(data_) ==
    IF Len(data_) = 0 THEN {}
    ELSE
    LET col == Column(data_, "total_amount")
        sorted == SortedValues(col)
        Q1 == QuantileTimes(sorted, 1, 4)
        Q3 == QuantileTimes(sorted, 3, 4)
        IQR == Q3 - Q1
    IN  {i \in 1..Len(data_) :
            \/ 4 * col[i] < Q1 - IqrMultiplier * IQR
            \/ 4 * col[i] > Q3 + IqrMultiplier * IQR}

IqrAnomalies(data_) ==
    IF Len(data_) = 0 THEN {}
    ELSE
    LET col == Column(data_, "total_amount")
        sorted == SortedValues(col)
        Q1 == QuantileTimes(sorted, 1, 4)
        Q3 == QuantileTimes(sorted, 3, 4)
        IQR == Q3 - Q1
        lower_bound == Q1 - IqrMultiplier * IQR
        upper_bound == Q3 + IqrMultiplier * IQR
    IN  IF IQR > 0
        THEN {i \in 1..Len(data_) :
                 4 * col[i] < lower_bound \/ 4 * col[i] > upper_bound}
        ELSE {}


\* faulty variant: the quantity rule with the threshold one deviation lower
QuantityAnomaliesLoose(data_) ==
    LET col == Column(data_, "quantity")
    IN  IF StdPositive(col) THEN ZOutliers(col, ZThreshold - 1) ELSE {}

QuantityAnomalies(data_) ==
    LET col == Column(data_, "quantity")
    IN  IF StdPositive(col)
        THEN ZOutliers(col, ZThreshold)
        ELSE {}


\* faulty variant: the time rule with the closing hour itself outside the window
TimeAnomaliesInclusive(data_) ==
    {i \in 1..Len(data_) :
        data_[i].hour < EarliestHour \/ data_[i].hour >= LatestHour}

TimeAnomalies(data_) ==
    {i \in 1..Len(data_) :
        data_[i].hour < EarliestHour \/ data_[i].hour > LatestHour}

\* the rows of anomalies_list, united
AllAnomalyIndices(data_) ==
    AmountAnomalies(data_) \cup IqrAnomalies(data_)
        \cup QuantityAnomalies(data_) \cup TimeAnomalies(data_)


\* faulty variant: the z-score for the rows the amount rule flagged, 1.0 for the rest
StatisticalScorePerRow(data_, i) ==
    LET col == Column(data_, "total_amount")
    IN  IF i \in AmountAnomalies(data_)
        THEN ZScoreValue(ZScore(col, col[i]))
        ELSE FixedScore(10)

\* the anomaly_score column: the amount_zscore column when the frame has
\* one (it was added to the copy when amount_std > 0), 1.0 otherwise
StatisticalScore(data_, i) ==
    LET col == Column(data_, "total_amount")
    IN  IF StdPositive(col)
        THEN ZScoreValue(ZScore(col, col[i]))
        ELSE FixedScore(10)

\* the columns the method reads; a missing one is a KeyError inside its try
StatisticalColumns == {"total_amount", "quantity", "timestamp"}

StatisticalDetection(data_, absent_) ==
    IF StatisticalColumns \cap absent_ # {} THEN EmptyFrame
    ELSE [i \in AllAnomalyIndices(data_) |-> StatisticalScore(data_, i)]
(***************************************************************************)
(* AnomalyDetector._prepare_features: one feature row per input row, and   *)
(* the empty frame of its except branch when a column it reads is missing. *)
(***************************************************************************)
FeatureColumns ==
    {"timestamp", "category", "store_id", "payment_method", "total_amount",
     "quantity", "unit_price", "subtotal", "tax_amount"}

\* faulty variant: without the except branch's empty frame
PrepareFeaturesUnguarded(data_, absent_) ==
    [i \in 1..Len(data_) |->
        [total_amount |-> data_[i].total_amount, quantity |-> data_[i].quantity,
         hour |-> data_[i].hour, minute |-> data_[i].minute]]

PrepareFeatures(data_, absent_) ==
    IF FeatureColumns \cap absent_ # {} THEN <<>>
    ELSE [i \in 1..Len(data_) |->
             [total_amount |-> data_[i].total_amount,
              quantity |-> data_[i].quantity,
              hour |-> data_[i].hour, minute |-> data_[i].minute]]

(***************************************************************************)
(* The caller's DataFrame object.  A function receives the object under    *)
(* the local name data; data = data.copy() and data = data.sort_values()   *)
(* bind the name to a new object, data[c] = ... assigns column c of the    *)
(* object the name is bound to, and a step that reads a missing column     *)
(* raises and ends the function.  table_frame records, of the caller's     *)
(* object, the columns and those that were assigned in place.              *)
(***************************************************************************)
TableColumns ==
    {"transaction_id", "timestamp", "store_id", "product_name", "category",
     "unit_price", "quantity", "subtotal", "tax_amount", "total_amount",
     "payment_method", "customer_id"}

GivenFrame(absent_) == [columns |-> TableColumns \ absent_, assigned |-> {}]

Copy == [op |-> "copy", reads |-> {}]

SortValues(c) == [op |-> "sort_values", reads |-> {c}]

Assign(c, reads) == [op |-> "assign", column |-> c, reads |-> reads]

Read(reads) == [op |-> "read", reads |-> reads]

\* faulty variant: data.copy() hands back the caller's object
RebindsBySortOnly(step) == step.op = "sort_values"

\* whether the step binds the local name to a new object
Rebinds(step) == step.op \in {"copy", "sort_values"}

\* the caller's object after the steps; own says that the local name is
\* bound to an object of the function's own
RECURSIVE FrameAfter(_, _, _, _)
FrameAfter(frame_, absent_, steps, own) ==
    IF steps = <<>> THEN frame_
    ELSE LET step == Head(steps)
         IN  IF step.reads \cap absent_ # {} THEN frame_
             ELSE IF Rebinds(step)
             THEN FrameAfter(frame_, absent_, Tail(steps), TRUE)
             ELSE IF step.op = "assign" /\ ~own
             THEN FrameAfter([columns |-> frame_.columns \cup {step.column},
                              assigned |-> frame_.assigned \cup {step.column}],
                             absent_, Tail(steps), own)
             ELSE FrameAfter(frame_, absent_, Tail(steps), own)

\* anomaly_detector.py lines 61-80
PrepareFeaturesSteps ==
    <<Copy,
      Assign("timestamp", {"timestamp"}),
      Assign("hour", {"timestamp"}),
      Assign("day_of_week", {"timestamp"}),
      Assign("minute", {"timestamp"}),
      Read({"category"}), Read({"store_id"}), Read({"payment_method"}),
      Read({"total_amount", "quantity", "unit_price", "subtotal", "tax_amount"})>>

\* anomaly_detector.py lines 135-175
StatisticalSteps(data_) ==
    <<Copy, Read({"total_amount"})>>
        \o (IF StdPositive(Column(data_, "total_amount"))
            THEN <<Assign("amount_zscore", {"total_amount"})>> ELSE <<>>)
        \o <<Read({"quantity"})>>
        \o (IF StdPositive(Column(data_, "quantity"))
            THEN <<Assign("quantity_zscore", {"quantity"})>> ELSE <<>>)
        \o <<Assign("timestamp", {"timestamp"}), Assign("hour", {"timestamp"})>>

\* detect_anomalies: _prepare_features and, for the statistical and the
\* combined method, _statistical_detection get the caller's object; the
\* isolation forest and the combination assign only to copies of selections
DetectAnomaliesFrameAfter(frame_, data_, absent_, method) ==
    IF Len(data_) = 0 THEN frame_
    ELSE LET prepared == FrameAfter(frame_, absent_, PrepareFeaturesSteps, FALSE)
         IN  IF Len(PrepareFeatures(data_, absent_)) = 0 THEN prepared
             ELSE IF method \in {"statistical", "combined"}
             THEN FrameAfter(prepared, absent_, StatisticalSteps(data_), FALSE)
             ELSE prepared

\* customer_segmentation.py lines 24-32; segment_customers and
\* _calculate_segment_stats assign to no frame of the caller's
CalculateRfmSteps ==
    <<Copy, Assign("timestamp", {"timestamp"}),
      Read({"customer_id", "transaction_id", "total_amount"})>>

CalculateRfmFrameAfter(frame_, data_, absent_) ==
    IF Len(data_) = 0 THEN frame_
    ELSE FrameAfter(frame_, absent_, CalculateRfmSteps, FALSE)

\* anomaly_detector.py lines 259-274: reads only
DetectRealTimeSteps ==
    <<Read({"total_amount"}), Read({"quantity"}), Read({"category"})>>

DetectRealTimeFrameAfter(frame_, data_, absent_) ==
    IF Len(data_) = 0 THEN frame_
    ELSE FrameAfter(frame_, absent_, DetectRealTimeSteps, FALSE)

\* analytics_engine.py lines 60-61
TimeSeriesSteps == <<Copy, Assign("timestamp", {"timestamp"})>>

\* analytics_engine.py lines 176-199
TrendsSteps ==
    <<Copy, Assign("timestamp", {"timestamp"}), SortValues("timestamp"),
      Read({"total_amount"}), Assign("hour", {"timestamp"})>>

\* calculate_metrics: of its seven parts only _calculate_time_series and
\* _calculate_trends assign to a frame
CalculateMetricsFrameAfter(frame_, data_, absent_) ==
    IF Len(data_) = 0 THEN frame_
    ELSE LET series == FrameAfter(frame_, absent_, TimeSeriesSteps, FALSE)
         IN  IF Len(data_) < 2 THEN series
             ELSE FrameAfter(series, absent_, TrendsSteps, FALSE)

(***************************************************************************)
(* The isolation forest.  fit_predict labels a row -1 when its score is    *)
(* strictly below the contamination (1/20) percentile of the scores of the *)
(* fitted rows, so it labels at most ceil((n - 1) / 20) rows, and rows     *)
(* with equal features are labelled alike.                                 *)
(***************************************************************************)
ContaminationInverse == 20

MaxFlagged(n) == (n + ContaminationInverse - 2) \div ContaminationInverse

ForestOutcomes(data_) ==
    LET n == Len(data_)
        Twins(i) == {j \in 1..n : data_[j] = data_[i]}
        rare == {i \in 1..n : Cardinality(Twins(i)) <= MaxFlagged(n)}
    IN  {S \in SUBSET rare :
            /\ Cardinality(S) <= MaxFlagged(n)
            /\ \A i \in S : Twins(i) \subseteq S}

\* faulty variant: the forest is fitted on any table that has a row
ForestFitsAnyRows(features_df) == Len(features_df) >= 1

\* AnomalyDetector._isolation_forest_detection
ForestFits(features_df) == Len(features_df) >= MinSamples

IsolationForestDetection(data_, features_df, forest_) ==
    IF ~ForestFits(features_df) THEN EmptyFrame
    ELSE [i \in forest_ |-> ForestScore]

(***************************************************************************)
(* AnomalyDetector.detect_anomalies for the three supported method names.  *)
(***************************************************************************)

\* faulty variant: the rows both detectors flag
CombinedIndicesBoth(iso_anomalies, stat_anomalies) ==
    (DOMAIN iso_anomalies) \cap (DOMAIN stat_anomalies)

CombinedIndices(iso_anomalies, stat_anomalies) ==
    (DOMAIN iso_anomalies) \cup (DOMAIN stat_anomalies)

\* faulty variant: the rows of the union keep the statistical detector's score
DetectAnomaliesFrameKeepScores(data_, absent_, forest_, method) ==
    LET features_df == PrepareFeatures(data_, absent_)
        iso_anomalies == IsolationForestDetection(data_, features_df, forest_)
        stat_anomalies == StatisticalDetection(data_, absent_)
    IN  IF method = "isolation_forest" THEN iso_anomalies
        ELSE IF method = "statistical" THEN stat_anomalies
        ELSE [i \in CombinedIndices(iso_anomalies, stat_anomalies) |->
                 IF i \in DOMAIN stat_anomalies THEN stat_anomalies[i]
                 ELSE FixedScore(8)]

\* the dispatch on a supported method name
DetectAnomaliesFrame(data_, absent_, forest_, method) ==
    LET features_df == PrepareFeatures(data_, absent_)
    IN  IF method = "isolation_forest"
        THEN IsolationForestDetection(data_, features_df, forest_)
        ELSE IF method = "statistical"
        THEN StatisticalDetection(data_, absent_)
        ELSE LET iso_anomalies ==
                     IsolationForestDetection(data_, features_df, forest_)
                 stat_anomalies == StatisticalDetection(data_, absent_)
             IN  [i \in CombinedIndices(iso_anomalies, stat_anomalies)
                     |-> FixedScore(8)]

\* detect_anomalies: the two early returns, then the dispatch, whose else
\* branch raises
DetectAnomaliesCall(data_, absent_, forest_, method) ==
    IF Len(data_) = 0 THEN Returned(EmptyFrame)
    ELSE IF Len(PrepareFeatures(data_, absent_)) = 0 THEN Returned(EmptyFrame)
    ELSE IF method \in Methods
    THEN Returned(DetectAnomaliesFrame(data_, absent_, forest_, method))
    ELSE Raised("ValueError")

\* whether the call reaches scaler.fit_transform and forest.fit_predict
DetectFits(data_, absent_, method) ==
    /\ Len(data_) > 0
    /\ method \in {"isolation_forest", "combined"}
    /\ Len(PrepareFeatures(data_, absent_)) > 0
    /\ ForestFits(PrepareFeatures(data_, absent_))

DetectAnomalies(method) ==
    /\ method \in MethodNames
    /\ results' = [results EXCEPT
                      ![method] = DetectAnomaliesCall(data, absent, forest, method)]
    /\ det_fitted' = (det_fitted \/ DetectFits(data, absent, method))
    /\ table_frame' = DetectAnomaliesFrameAfter(table_frame, data, absent, method)
    /\ UNCHANGED <<data, absent, forest>>
    /\ UNCHANGED <<segVars, rtVars, nameVars, streamVars, reportVars, metricVars>>

(***************************************************************************)
(* _prepare_features applied to its own output as a fresh table.           *)
(***************************************************************************)
\* the columns of the returned features: the numerical ones and the dummy
\* columns, by prefix; none when the preparation failed
PreparedColumns(absent_) ==
    IF FeatureColumns \cap absent_ # {} THEN {}
    ELSE {"total_amount", "quantity", "unit_price", "subtotal", "tax_amount",
          "hour", "day_of_week", "minute", "cat_", "store_", "pay_"}

\* faulty variant: without the except branch a missing column raises
PrepareFeaturesCallNoExcept(data_, absent_) ==
    IF FeatureColumns \cap absent_ # {} THEN Raised("KeyError")
    ELSE Returned(PrepareFeatures(data_, absent_))

\* a call of _prepare_features: whatever happens in the try block, it returns
PrepareFeaturesCall(data_, absent_) ==
    Returned(PrepareFeatures(data_, absent_))

PrepareFeaturesTwice ==
    /\ LET first == PrepareFeaturesCall(data, absent)
           second == IF first.outcome = "raised" THEN first
                     ELSE PrepareFeaturesCall(
                              first.frame, TableColumns \ PreparedColumns(absent))
       IN  features_out' = [first |-> first, second |-> second]
    /\ UNCHANGED <<data, detVars, segVars, rtVars, nameVars, streamVars, reportVars>>
    /\ UNCHANGED <<metrics_out, table_frame>>

(***************************************************************************)
(* CustomerSegmentation.calculate_rfm_metrics.                             *)
(***************************************************************************)
MinutesPerDay == 1440

NumBins == 5

\* pd.to_datetime(timestamp), in minutes
Timestamp(row) == row.day * MinutesPerDay + row.hour * 60 + row.minute

SetMax(S) == CHOOSE x \in S : \A y \in S : y <= x

CustomerIds(data_) == {data_[i].customer_id : i \in 1..Len(data_)}

\* groupby('customer_id') sorts the groups: the k-th customer of the table
CustomerAt(data_, k) ==
    CHOOSE c \in CustomerIds(data_) :
        Cardinality({d \in CustomerIds(data_) : d < c}) = k - 1

RowsOf(data_, c) == {i \in 1..Len(data_) : data_[i].customer_id = c}

\* faulty variant: days counted from a clock one day past the table's latest row
RecencyFromNow(data_, c) ==
    LET now == SetMax({Timestamp(data_[i]) : i \in 1..Len(data_)}) + MinutesPerDay
        last == SetMax({Timestamp(data_[i]) : i \in RowsOf(data_, c)})
    IN  (now - last) \div MinutesPerDay

\* (current_date - x.max()).days
Recency(data_, c) ==
    LET current_date == SetMax({Timestamp(data_[i]) : i \in 1..Len(data_)})
        last == SetMax({Timestamp(data_[i]) : i \in RowsOf(data_, c)})
    IN  (current_date - last) \div MinutesPerDay

Frequency(data_, c) == Cardinality(RowsOf(data_, c))

Monetary(data_, c) ==
    SumSeq([i \in 1..Len(data_) |->
               IF data_[i].customer_id = c THEN data_[i].total_amount ELSE 0])

\* Series.rank(method='first')
RankFirst(col) ==
    AsSeq([i \in 1..Len(col) |->
              1 + Cardinality({j \in 1..Len(col) : col[j] < col[i]})
                + Cardinality({j \in 1..(i - 1) : col[j] = col[i]})],
          Len(col))

\* pd.qcut(col, 5, labels=<5 labels>, duplicates='drop'): the bin edges are
\* the quantiles 0, 1/5, .., 1 (here times 5); equal edges are dropped, and
\* with fewer than 6 edges left the 5 labels no longer fit the bins, which
\* _bins_to_cuts rejects with ValueError.
QcutEdges(col) ==
    LET sorted == SortedValues(col)
    IN  {QuantileTimes(sorted, k, NumBins) : k \in 0..NumBins}

QcutRaises(edges) == Cardinality(edges) # NumBins + 1

\* the bin (1..5) of value x: searchsorted(bins, x, side='left'), the lowest
\* edge included in the first bin
QcutBin(edges, x) ==
    LET below == Cardinality({e \in edges : e < NumBins * x})
    IN  IF below = 0 THEN 1 ELSE below

RfmRaised == [outcome |-> "raised", error |-> "ValueError"]

RfmReturned(rfm) == [outcome |-> "returned", rfm |-> rfm]

CalculateRfmMetrics(data_) ==
    IF Len(data_) = 0 THEN RfmReturned(<<>>)
    ELSE
    LET n == Cardinality(CustomerIds(data_))
        ids == AsSeq([k \in 1..n |-> CustomerAt(data_, k)], n)
        recency == AsSeq([k \in 1..n |-> Recency(data_, ids[k])], n)
        frequency == AsSeq([k \in 1..n |-> Frequency(data_, ids[k])], n)
        monetary == AsSeq([k \in 1..n |-> Monetary(data_, ids[k])], n)
        rank == RankFirst(frequency)
        recency_bins == QcutEdges(recency)
        frequency_bins == QcutEdges(rank)
        monetary_bins == QcutEdges(monetary)
    IN  IF \/ QcutRaises(recency_bins)
           \/ QcutRaises(frequency_bins)
           \/ QcutRaises(monetary_bins)
        THEN RfmRaised
        ELSE RfmReturned(AsSeq(
            [k \in 1..n |->
                LET r == NumBins + 1 - QcutBin(recency_bins, recency[k])
                    f == QcutBin(frequency_bins, rank[k])
                    m == QcutBin(monetary_bins, monetary[k])
                IN  [customer_id |-> ids[k],
                     recency |-> recency[k], frequency |-> frequency[k],
                     monetary |-> monetary[k],
                     recency_score |-> r, frequency_score |-> f,
                     monetary_score |-> m, rfm_score |-> <<r, f, m>>]], n))

(***************************************************************************)
(* CustomerSegmentation.segment_customers.                                 *)
(***************************************************************************)
\* 100 * round(sum / count, 2), halves rounded to even
Round2(sum, count) ==
    LET q == (100 * sum) \div count
        r == (100 * sum) % count
    IN  IF 2 * r < count THEN q
        ELSE IF 2 * r > count THEN q + 1
        ELSE IF q % 2 = 0 THEN q ELSE q + 1

\* 2 * Series.median() of the values vals[c], c in S (S not empty)
MedianTimes2(vals, S) ==
    LET n == Cardinality(S)
        seq == AsSeq([k \in 1..n |->
                         vals[CHOOSE c \in S : Cardinality({d \in S : d < c}) = k - 1]],
                     n)
    IN  IF n % 2 = 1 THEN 2 * Kth(seq, (n + 1) \div 2)
        ELSE Kth(seq, n \div 2) + Kth(seq, n \div 2 + 1)

\* KMeans(n_clusters, random_state=42).fit_predict on the scaled features:
\* a labelling of the customers by 0..n_clusters-1 that is a fixed function
\* of the table, unknown to the model.  Equal feature rows get one label,
\* and as many clusters are used as there are distinct rows, up to
\* n_clusters.
KMeansLabelings(rfm, n_clusters) ==
    LET n == Len(rfm)
        point(k) == <<rfm[k].recency, rfm[k].frequency, rfm[k].monetary>>
        distinct == Cardinality({point(k) : k \in 1..n})
        used == IF distinct < n_clusters THEN distinct ELSE n_clusters
    IN  {lab \in [1..n -> 0..(n_clusters - 1)] :
            /\ \A j, k \in 1..n : point(j) = point(k) => lab[j] = lab[k]
            /\ Cardinality({lab[k] : k \in 1..n}) = used}

\* rfm.groupby('cluster').agg(mean ...).round(2), each mean times 100
ClusterSummary(rfm, cluster_labels) ==
    LET clusters == {cluster_labels[k] : k \in 1..Len(rfm)}
        members(c) == {k \in 1..Len(rfm) : cluster_labels[k] = c}
        mean(c, f) ==
            Round2(SumSeq([k \in 1..Len(rfm) |->
                              IF cluster_labels[k] = c THEN rfm[k][f] ELSE 0]),
                   Cardinality(members(c)))
    IN  AsFcn([c \in clusters |->
                  [recency |-> mean(c, "recency"),
                   frequency |-> mean(c, "frequency"),
                   monetary |-> mean(c, "monetary"),
                   customer_id |-> Cardinality(members(c))]],
              clusters)

\* faulty variant: the recency test with the comparison turned round
AssignSegmentNamesRecencyHigh(cluster_summary_) ==
    LET S == DOMAIN cluster_summary_
        col(f) == AsFcn([c \in S |-> cluster_summary_[c][f]], S)
        frequency_median == MedianTimes2(col("frequency"), S)
        monetary_median == MedianTimes2(col("monetary"), S)
        recency_median == MedianTimes2(col("recency"), S)
        highF(c) == 2 * cluster_summary_[c].frequency >= frequency_median
        highM(c) == 2 * cluster_summary_[c].monetary >= monetary_median
        lowR(c) == 2 * cluster_summary_[c].recency >= recency_median
    IN  AsFcn([c \in S |->
                  IF highF(c) /\ highM(c)
                  THEN (IF lowR(c) THEN "Champions" ELSE "Loyal Customers")
                  ELSE IF highF(c)
                  THEN (IF lowR(c) THEN "Potential Loyalists" ELSE "At Risk")
                  ELSE IF highM(c)
                  THEN (IF lowR(c) THEN "New Customers" ELSE "Hibernating")
                  ELSE (IF lowR(c) THEN "Promising" ELSE "Lost Customers")],
              S)

\* CustomerSegmentation._assign_segment_names
AssignSegmentNames(cluster_summary_) ==
    LET S == DOMAIN cluster_summary_
        col(f) == AsFcn([c \in S |-> cluster_summary_[c][f]], S)
        frequency_median == MedianTimes2(col("frequency"), S)
        monetary_median == MedianTimes2(col("monetary"), S)
        recency_median == MedianTimes2(col("recency"), S)
        highF(c) == 2 * cluster_summary_[c].frequency >= frequency_median
        highM(c) == 2 * cluster_summary_[c].monetary >= monetary_median
        lowR(c) == 2 * cluster_summary_[c].recency <= recency_median
    IN  AsFcn([c \in S |->
                  IF highF(c) /\ highM(c)
                  THEN (IF lowR(c) THEN "Champions" ELSE "Loyal Customers")
                  ELSE IF highF(c)
                  THEN (IF lowR(c) THEN "Potential Loyalists" ELSE "At Risk")
                  ELSE IF highM(c)
                  THEN (IF lowR(c) THEN "New Customers" ELSE "Hibernating")
                  ELSE (IF lowR(c) THEN "Promising" ELSE "Lost Customers")],
              S)

\* faulty variant: the rows of the last cluster that got the name
SegmentRowsOfLastCluster(rfm, seg) ==
    LET named == {k \in 1..Len(rfm) : rfm[k].segment_name = seg}
        last == SetMax({rfm[k].cluster : k \in named})
    IN  {k \in named : rfm[k].cluster = last}

\* rfm[rfm['segment_name'] == segment], the positions of its rows
SegmentRows(rfm, seg) == {k \in 1..Len(rfm) : rfm[k].segment_name = seg}

\* CustomerSegmentation._calculate_segment_stats: one entry per segment
\* name.  Averages are kept as <<sum, count>>; the category and hour
\* rankings are not modelled.
CalculateSegmentStats(rfm, original_data) ==
    IF Len(original_data) = 0 THEN <<>>
    ELSE
    LET names == {rfm[k].segment_name : k \in 1..Len(rfm)}
        of(seg) == SegmentRows(rfm, seg)
        segment_customers(seg) == {rfm[k].customer_id : k \in of(seg)}
        segment_data(seg) ==
            {i \in 1..Len(original_data) :
                original_data[i].customer_id \in segment_customers(seg)}
        total(seg, f) ==
            SumSeq([k \in 1..Len(rfm) |-> IF k \in of(seg) THEN rfm[k][f] ELSE 0])
        revenue(seg) ==
            SumSeq([i \in 1..Len(original_data) |->
                       IF i \in segment_data(seg)
                       THEN original_data[i].total_amount ELSE 0])
    IN  [seg \in {x \in names : segment_data(x) # {}} |->
            [customer_count |-> Cardinality(of(seg)),
             customers |-> segment_customers(seg),
             avg_recency |-> <<total(seg, "recency"), Cardinality(of(seg))>>,
             avg_frequency |-> <<total(seg, "frequency"), Cardinality(of(seg))>>,
             avg_monetary |-> <<total(seg, "monetary"), Cardinality(of(seg))>>,
             total_revenue |-> revenue(seg),
             avg_transaction_value |->
                 <<revenue(seg), Cardinality(segment_data(seg))>>,
             total_transactions |-> Cardinality(segment_data(seg))]]

\* what a call of segment_customers yields
SegRaised(n_clusters) ==
    [outcome |-> "raised", n_clusters |-> n_clusters, error |-> "ValueError"]

SegEmpty(n_clusters) ==
    [outcome |-> "returned", n_clusters |-> n_clusters, rfm |-> <<>>,
     segment_names |-> <<>>, segment_stats |-> <<>>]

SegSegmented(data_, n_clusters, rfm, cluster_labels) ==
    LET segment_names == AssignSegmentNames(ClusterSummary(rfm, cluster_labels))
        named == AsSeq(
                     [k \in 1..Len(rfm) |->
                         [customer_id |-> rfm[k].customer_id,
                          recency |-> rfm[k].recency,
                          frequency |-> rfm[k].frequency,
                          monetary |-> rfm[k].monetary,
                          recency_score |-> rfm[k].recency_score,
                          frequency_score |-> rfm[k].frequency_score,
                          monetary_score |-> rfm[k].monetary_score,
                          rfm_score |-> rfm[k].rfm_score,
                          cluster |-> cluster_labels[k],
                          segment_name |-> segment_names[cluster_labels[k]]]],
                     Len(rfm))
    IN  [outcome |-> "returned", n_clusters |-> n_clusters, rfm |-> named,
         segment_names |-> segment_names,
         segment_stats |-> CalculateSegmentStats(named, data_)]

(***************************************************************************)
(* The tables the detector is run on: up to MaxRows rows, all equal to one *)
(* base row (an ordinary sale at any of the times) but for at most MaxOdd  *)
(* rows.  An odd row differs from the ordinary noon sale in at most one    *)
(* column.  The odd rows come last and in a fixed order: no statistic of   *)
(* the detector depends on the order of the rows.                          *)
(***************************************************************************)
Noon == <<12, 0>>

BaseRows == {Row(1, 0, t, 20, 1) : t \in Times}

OddRows ==
    {Row(1, 0, Noon, a, 1) : a \in Amounts}
        \cup {Row(1, 0, Noon, 20, q) : q \in Quantities}
        \cup {Row(1, 0, t, 20, 1) : t \in Times}

RECURSIVE LexLeq(_, _)
LexLeq(s, t) ==
    IF s = <<>> THEN TRUE
    ELSE IF Head(s) # Head(t) THEN Head(s) < Head(t)
    ELSE LexLeq(Tail(s), Tail(t))

RowTuple(r) ==
    <<r.customer_id, r.day, r.hour, r.minute, r.total_amount, r.quantity>>

Ordered(rows) ==
    \A i \in 1..(Len(rows) - 1) : LexLeq(RowTuple(rows[i]), RowTuple(rows[i + 1]))

MostlyUniformTables(bases, odds, maxRows) ==
    {[i \in 1..n |-> IF i <= n - Len(odd) THEN base ELSE odd[i - (n - Len(odd))]] :
        n \in 0..maxRows, base \in bases,
        odd \in {o \in UNION {[1..k -> odds] : k \in 0..MaxOdd} : Ordered(o)}}

DetectTables == MostlyUniformTables(BaseRows, OddRows, MaxRows)

DetInitial ==
    /\ results = [m \in MethodNames |-> NotCalled]
    /\ det_fitted = FALSE

SegInitial ==
    /\ rfm_out = NotCalled
    /\ seg_out = NotCalled
    /\ is_fitted = FALSE
    /\ kmeans_model = 0

\* no candidate has been handed to detect_real_time_anomalies
NoTransaction == [kind |-> "none"]

DefaultThreshold == 2

RtInitial ==
    /\ new_transaction = NoTransaction
    /\ threshold_std = DefaultThreshold
    /\ rt_out = NotCalled

NameInitial ==
    /\ cluster_summary = <<>>
    /\ names_out = NotCalled

\* the streaming threads a session may create, in the order of creation
StreamThreads == {"stream_1", "stream_2"}

ThreadOrder == [t \in StreamThreads |-> IF t = "stream_1" THEN 1 ELSE 2]

\* the threads of a session: the streaming threads and the script run
Threads == StreamThreads \cup {"ui"}

\* st.session_state after the initialisation of app.py, no thread started
StreamInitial ==
    /\ sales_data = <<>>
    /\ is_streaming = FALSE
    /\ last_update = 0
    /\ clock = 0
    /\ pc = [t \in Threads |-> IF t = "ui" THEN "idle" ELSE "not_started"]
    /\ streaming_thread = "none"
    /\ after_stop = -1
    /\ batch_data = [t \in Threads |-> <<>>]
    /\ staged = [t \in Threads |-> <<>>]
    /\ evicted = [t \in Threads |-> <<>>]

\* the caller's table object as it is handed over; calculate_metrics not
\* called yet
TableInitial ==
    /\ table_frame = GivenFrame(absent)
    /\ metrics_out = NotCalled
    /\ features_out = NotCalled

\* app.py line 345: no report generated yet, and no exception shown
ReportInitial ==
    /\ generated_report = <<>>
    /\ report_error = "none"

Init ==
    /\ data \in DetectTables
    /\ absent = {}
    /\ forest \in ForestOutcomes(data)
    /\ DetInitial
    /\ SegInitial
    /\ RtInitial
    /\ NameInitial
    /\ StreamInitial
    /\ ReportInitial
    /\ TableInitial

Next == \E method \in Methods : DetectAnomalies(method)

Spec == Init /\ [][Next]_vars

(***************************************************************************)
(* detect_anomalies under any method name, on tables of up to MaxCallRows  *)
(* rows that may lack a column.                                            *)
(***************************************************************************)
MaxCallRows == 11

AbsentChoices == {{}, {"unit_price"}, {"quantity"}}

CallTables == MostlyUniformTables(BaseRows, OddRows, MaxCallRows)

CallInit ==
    /\ data \in CallTables
    /\ absent \in AbsentChoices
    /\ forest \in ForestOutcomes(data)
    /\ DetInitial
    /\ SegInitial
    /\ RtInitial
    /\ NameInitial
    /\ StreamInitial
    /\ ReportInitial
    /\ TableInitial

CallNext ==
    \/ \E method \in MethodNames : DetectAnomalies(method)
    \/ PrepareFeaturesTwice

CallSpec == CallInit /\ [][CallNext]_vars

(***************************************************************************)
(* The segmentation calls, on tables of up to MaxTx rows (in a fixed       *)
(* order: the RFM metrics do not depend on the order of the rows) of up to *)
(* MaxCustomers customers.                                                 *)
(***************************************************************************)
MaxTx == 3
MaxCustomers == 3
MaxClusters == 3

SegAmounts == {10, 20, 1000}

\* <<day, time of day>>
SegStamps == {<<0, Noon>>, <<1, <<5, 30>>>>, <<2, Noon>>}

SegRows ==
    {Row(c, s[1], s[2], a, 1) :
        c \in 1..MaxCustomers, s \in SegStamps, a \in SegAmounts}

SegTables == {t \in UNION {[1..k -> SegRows] : k \in 0..MaxTx} : Ordered(t)}

CalculateRfm ==
    /\ rfm_out' = CalculateRfmMetrics(data)
    /\ table_frame' = CalculateRfmFrameAfter(table_frame, data, absent)
    /\ UNCHANGED <<data, seg_out, is_fitted, kmeans_model>>
    /\ UNCHANGED <<detVars, rtVars, nameVars, streamVars, reportVars, metricVars>>

SegmentCustomers(n_clusters) ==
    LET called == CalculateRfmMetrics(data)
    IN  /\ IF Len(data) = 0
           THEN /\ seg_out' = SegEmpty(n_clusters)
                /\ UNCHANGED <<is_fitted, kmeans_model>>
           ELSE IF called.outcome = "raised"
           THEN /\ seg_out' = SegRaised(n_clusters)
                /\ UNCHANGED <<is_fitted, kmeans_model>>
           ELSE IF Len(called.rfm) = 0 \/ Len(called.rfm) < n_clusters
           THEN /\ seg_out' = SegEmpty(n_clusters)
                /\ UNCHANGED <<is_fitted, kmeans_model>>
           ELSE \E cluster_labels \in KMeansLabelings(called.rfm, n_clusters) :
                    /\ seg_out' = SegSegmented(data, n_clusters, called.rfm,
                                               cluster_labels)
                    /\ kmeans_model' = n_clusters
                    /\ is_fitted' = TRUE
        /\ table_frame' = CalculateRfmFrameAfter(table_frame, data, absent)
        /\ UNCHANGED <<data, rfm_out>>
        /\ UNCHANGED <<detVars, rtVars, nameVars, streamVars, reportVars, metricVars>>

SegInit ==
    /\ data \in SegTables
    /\ absent = {}
    /\ forest = {}
    /\ DetInitial
    /\ SegInitial
    /\ RtInitial
    /\ NameInitial
    /\ StreamInitial
    /\ ReportInitial
    /\ TableInitial

SegNext ==
    \/ CalculateRfm
    \/ \E n_clusters \in 1..MaxClusters : SegmentCustomers(n_clusters)

SegSpec == SegInit /\ [][SegNext]_vars
(***************************************************************************)
(* AnomalyDetector.detect_real_time_anomalies: one candidate transaction   *)
(* against a history table.                                                *)
(***************************************************************************)

\* the z-score 0 of a component whose reference deviation is not positive
ZeroScore == [dev |-> 0, n |-> 2, varn |-> 1]

\* z1 > z2 for two z-scores
ZScoreGreater(z1, z2) ==
    ProdGT(z1.dev * z1.dev * (z1.n - 1), z2.n * z2.varn,
           z2.dev * z2.dev * (z2.n - 1), z1.n * z1.varn)

\* abs((x - mean) / std) if std > 0 else 0
ComponentZScore(col, x) ==
    IF StdPositive(col) THEN ZScore(col, x) ELSE ZeroScore

\* faulty variant: a z-score equal to the threshold counts as well
ReachesThreshold(z, threshold_std_) ==
    IF threshold_std_ < 0 THEN TRUE
    ELSE ~ProdGT(threshold_std_ * threshold_std_ * z.n, z.varn,
                 z.dev * z.dev, z.n - 1)

\* zscore > threshold_std; a z-score is never negative
ExceedsThreshold(z, threshold_std_) ==
    IF threshold_std_ < 0 THEN TRUE ELSE ZGreater(z, threshold_std_)

\* Python's max of three values: the first of the largest
MaxScore(a, q, c) ==
    LET aq == IF ZScoreGreater(q, a) THEN q ELSE a
    IN  IF ZScoreGreater(c, aq) THEN c ELSE aq

TransactionKeys == {"total_amount", "quantity", "category"}

\* a dict is read with .get and a default, a Series by key: a missing key is
\* a KeyError
TransactionRaises(new_transaction_) ==
    /\ new_transaction_.kind = "Series"
    /\ ~(TransactionKeys \subseteq DOMAIN new_transaction_.fields)

TransactionGet(new_transaction_, key, default) ==
    IF key \in DOMAIN new_transaction_.fields
    THEN new_transaction_.fields[key]
    ELSE default

\* the history columns the method reads
HistoryColumns == {"total_amount", "quantity", "category"}

RtReturned(value) == [outcome |-> "returned", value |-> value]

NoHistoryVerdict == [is_anomaly |-> FALSE, reason |-> "No historical data"]

ErrorVerdict == [is_anomaly |-> FALSE, reason |-> "Error in detection"]

Reason(text, z) == [text |-> text, z |-> z]

\* the body of the try block, when nothing in it raises
RealTimeVerdict(new_transaction_, historical_data, threshold_std_) ==
    LET amount == TransactionGet(new_transaction_, "total_amount", 0)
        quantity == TransactionGet(new_transaction_, "quantity", 0)
        category == TransactionGet(new_transaction_, "category", "")
        amount_zscore ==
            ComponentZScore(Column(historical_data, "total_amount"), amount)
        quantity_zscore ==
            ComponentZScore(Column(historical_data, "quantity"), quantity)
        category_data ==
            SelectSeq(historical_data, LAMBDA r : r.category = category)
        category_zscore ==
            IF Len(category_data) # 0
            THEN ComponentZScore(Column(category_data, "total_amount"), amount)
            ELSE ZeroScore
        category_anomaly ==
            /\ Len(category_data) # 0
            /\ ExceedsThreshold(category_zscore, threshold_std_)
        amount_anomaly == ExceedsThreshold(amount_zscore, threshold_std_)
        quantity_anomaly == ExceedsThreshold(quantity_zscore, threshold_std_)
    IN  [is_anomaly |-> amount_anomaly \/ quantity_anomaly \/ category_anomaly,
         anomaly_score |-> MaxScore(amount_zscore, quantity_zscore, category_zscore),
         reasons |->
             (IF amount_anomaly
              THEN <<Reason("Unusual amount", amount_zscore)>> ELSE <<>>)
             \o (IF quantity_anomaly
                 THEN <<Reason("Unusual quantity", quantity_zscore)>> ELSE <<>>)
             \o (IF category_anomaly
                 THEN <<Reason("Unusual for category", category_zscore)>>
                 ELSE <<>>),
         amount_zscore |-> amount_zscore,
         quantity_zscore |-> quantity_zscore,
         category_zscore |-> category_zscore]

\* faulty variant: without the try block around the body
DetectRealTimeAnomaliesNoTry(new_transaction_, historical_data, absent_, threshold_std_) ==
    IF Len(historical_data) = 0 THEN RtReturned(NoHistoryVerdict)
    ELSE IF TransactionRaises(new_transaction_) \/ HistoryColumns \cap absent_ # {}
    THEN Raised("KeyError")
    ELSE RtReturned(RealTimeVerdict(new_transaction_, historical_data,
                                    threshold_std_))

DetectRealTimeAnomalies(new_transaction_, historical_data, absent_, threshold_std_) ==
    IF Len(historical_data) = 0 THEN RtReturned(NoHistoryVerdict)
    ELSE IF TransactionRaises(new_transaction_) \/ HistoryColumns \cap absent_ # {}
    THEN RtReturned(ErrorVerdict)
    ELSE RtReturned(RealTimeVerdict(new_transaction_, historical_data,
                                    threshold_std_))

DetectRealTime ==
    /\ rt_out' = DetectRealTimeAnomalies(new_transaction, data, absent,
                                         threshold_std)
    /\ table_frame' = DetectRealTimeFrameAfter(table_frame, data, absent)
    /\ UNCHANGED <<data, absent, forest, results, det_fitted>>
    /\ UNCHANGED <<new_transaction, threshold_std>>
    /\ UNCHANGED <<segVars, nameVars, streamVars, reportVars, metricVars>>

\* histories of up to MaxHistory rows, candidates as a dict or a Series with
\* or without the category key, and thresholds below, at and above zero
MaxHistory == 3

HistoryRows ==
    {[category |-> "Food", total_amount |-> 10, quantity |-> 1],
     [category |-> "Food", total_amount |-> 20, quantity |-> 1],
     [category |-> "Food", total_amount |-> 10, quantity |-> 5],
     [category |-> "Toys", total_amount |-> 10, quantity |-> 1]}

Histories == UNION {[1..n -> HistoryRows] : n \in 0..MaxHistory}

CandidateFields ==
    {[total_amount |-> a, quantity |-> q, category |-> c] :
        a \in {10, 50}, q \in {1, 9}, c \in {"Food", "Books"}}

WithoutCategory(fields) ==
    [key \in {"total_amount", "quantity"} |-> fields[key]]

Candidates ==
    {[kind |-> k, fields |-> f] : k \in {"dict", "Series"}, f \in CandidateFields}
        \cup {[kind |-> k, fields |-> WithoutCategory(f)] :
                 k \in {"dict", "Series"}, f \in CandidateFields}

Thresholds == {-1, 0, 2}

RtInit ==
    /\ data \in Histories
    /\ absent \in {{}, {"quantity"}}
    /\ forest = {}
    /\ DetInitial
    /\ SegInitial
    /\ new_transaction \in Candidates
    /\ threshold_std \in Thresholds
    /\ rt_out = NotCalled
    /\ NameInitial
    /\ StreamInitial
    /\ ReportInitial
    /\ TableInitial

RtNext == DetectRealTime

RtSpec == RtInit /\ [][RtNext]_vars

(***************************************************************************)
(* CustomerSegmentation._assign_segment_names on its own, for every        *)
(* cluster summary of up to MaxNamedClusters clusters whose means are      *)
(* drawn from SummaryMeans.                                                *)
(***************************************************************************)
MaxNamedClusters == 3

SummaryMeans == {0, 1, 2}

ClusterSummaries ==
    UNION {[0..(K - 1) ->
               [recency : SummaryMeans, frequency : SummaryMeans,
                monetary : SummaryMeans, customer_id : {1}]] :
           K \in 1..MaxNamedClusters}

AssignNames ==
    /\ names_out' = [outcome |-> "returned",
                     segment_names |-> AssignSegmentNames(cluster_summary)]
    /\ UNCHANGED <<cluster_summary, table_frame>>
    /\ UNCHANGED <<data, detVars, segVars, rtVars, streamVars, reportVars, metricVars>>

NameInit ==
    /\ data = <<>>
    /\ absent = {}
    /\ forest = {}
    /\ DetInitial
    /\ SegInitial
    /\ RtInitial
    /\ cluster_summary \in ClusterSummaries
    /\ names_out = NotCalled
    /\ StreamInitial
    /\ ReportInitial
    /\ TableInitial

NameNext == AssignNames

NameSpec == NameInit /\ [][NameNext]_vars

(***************************************************************************)
(* AnalyticsEngine.calculate_metrics.  Of the summary statistics the       *)
(* revenue, the number of transactions and the number of customers are     *)
(* kept; the per-category, per-store and per-product tables are not        *)
(* modelled.  Percentages are kept in hundredths.                          *)
(***************************************************************************)
\* data.sort_values('timestamp'): the rows in ascending order of timestamp,
\* rows of equal timestamp in their given order
SortByTimestamp(data_) ==
    LET n == Len(data_)
        place(i) ==
            Cardinality({j \in 1..n : Timestamp(data_[j]) < Timestamp(data_[i])})
                + Cardinality({j \in 1..i : Timestamp(data_[j]) = Timestamp(data_[i])})
    IN  AsSeq([k \in 1..n |-> data_[CHOOSE i \in 1..n : place(i) = k]], n)

\* faulty variant: the recent half rounded up
RecentDataRoundedUp(sorted) ==
    IF Len(sorted) > 4
    THEN SubSeq(sorted, Len(sorted) - (Len(sorted) + 1) \div 2 + 1, Len(sorted))
    ELSE sorted

\* line 181: data.tail(len(data) // 2) if len(data) > 4 else data
RecentData(sorted) ==
    IF Len(sorted) > 4
    THEN SubSeq(sorted, Len(sorted) - Len(sorted) \div 2 + 1, Len(sorted))
    ELSE sorted

\* line 182: data.head(len(data) // 2) if len(data) > 4 else data
OlderData(sorted) ==
    IF Len(sorted) > 4 THEN SubSeq(sorted, 1, Len(sorted) \div 2) ELSE sorted

\* 100 * round((recent - older) / older * 100, 2) if older > 0 else 0, for
\* the fractions recent = rnum / rden and older = onum / oden
GrowthPercent(rnum, rden, onum, oden) ==
    IF onum > 0
    THEN Round2(100 * (rnum * oden - onum * rden), onum * rden)
    ELSE 0

EmptyTrends == [empty |-> TRUE]

\* _calculate_trends, lines 171-222
CalculateTrends(data_) ==
    IF Len(data_) < 2 THEN EmptyTrends
    ELSE
    LET sorted == SortByTimestamp(data_)
        recent_data == RecentData(sorted)
        older_data == OlderData(sorted)
        recent_sum == SumSeq(Column(recent_data, "total_amount"))
        older_sum == SumSeq(Column(older_data, "total_amount"))
    IN  [empty |-> FALSE,
         revenue_growth_percent |->
             GrowthPercent(recent_sum, Len(recent_data),
                           older_sum, Len(older_data)),
         transaction_growth_percent |->
             GrowthPercent(Len(recent_data), 1, Len(older_data), 1),
         data_timespan_minutes |->
             Timestamp(sorted[Len(sorted)]) - Timestamp(sorted[1])]

MetricsReturned(metrics) == [outcome |-> "returned", metrics |-> metrics]

\* _empty_metrics
EmptyMetrics == [empty |-> TRUE, trends |-> EmptyTrends]

\* calculate_metrics, lines 11-24
CalculateMetricsCall(data_) ==
    IF Len(data_) = 0 THEN MetricsReturned(EmptyMetrics)
    ELSE MetricsReturned(
             [empty |-> FALSE,
              total_revenue |-> SumSeq(Column(data_, "total_amount")),
              total_transactions |-> Len(data_),
              unique_customers |-> Cardinality(CustomerIds(data_)),
              trends |-> CalculateTrends(data_)])

CalculateMetrics ==
    /\ metrics_out' = CalculateMetricsCall(data)
    /\ table_frame' = CalculateMetricsFrameAfter(table_frame, data, absent)
    /\ UNCHANGED features_out
    /\ UNCHANGED <<data, detVars, segVars, rtVars, nameVars, streamVars, reportVars>>

(***************************************************************************)
(* The five analysis calls on one table of the caller's: detect_anomalies, *)
(* detect_real_time_anomalies, calculate_rfm_metrics, segment_customers    *)
(* and calculate_metrics, in any order and any number of times.            *)
(***************************************************************************)
MaxFrameRows == 2

FrameRows ==
    {[category |-> "Food"] @@ Row(r[1], r[2], Noon, r[3], 1) :
        r \in {<<1, 0, 10>>, <<1, 1, 20>>, <<2, 1, 20>>}}

FrameTables == UNION {[1..n -> FrameRows] : n \in 0..MaxFrameRows}

FrameCandidates ==
    {[kind |-> "dict",
      fields |-> [total_amount |-> 50, quantity |-> 1, category |-> "Food"]],
     [kind |-> "Series", fields |-> [total_amount |-> 50, quantity |-> 1]]}

FrameInit ==
    /\ data \in FrameTables
    /\ absent = {}
    /\ forest \in ForestOutcomes(data)
    /\ DetInitial
    /\ SegInitial
    /\ new_transaction \in FrameCandidates
    /\ threshold_std = DefaultThreshold
    /\ rt_out = NotCalled
    /\ NameInitial
    /\ StreamInitial
    /\ ReportInitial
    /\ TableInitial

FrameNext ==
    \/ \E method \in Methods : DetectAnomalies(method)
    \/ DetectRealTime
    \/ CalculateRfm
    \/ \E n_clusters \in 1..MaxClusters : SegmentCustomers(n_clusters)
    \/ CalculateMetrics

FrameSpec == FrameInit /\ [][FrameNext]_vars

(***************************************************************************)
(* calculate_metrics on its own, on tables of up to MaxTrendRows rows.     *)
(***************************************************************************)
MaxTrendRows == 6

TrendRows == {Row(1, d, Noon, a, 1) : d \in {0, 1}, a \in {10, 20}}

TrendTables == UNION {[1..n -> TrendRows] : n \in 0..MaxTrendRows}

TrendInit ==
    /\ data \in TrendTables
    /\ absent = {}
    /\ forest = {}
    /\ DetInitial
    /\ SegInitial
    /\ RtInitial
    /\ NameInitial
    /\ StreamInitial
    /\ ReportInitial
    /\ TableInitial

TrendNext == CalculateMetrics

TrendSpec == TrendInit /\ [][TrendNext]_vars

(***************************************************************************)
(* app.py show_reports and ReportGenerator.generate_comprehensive_report.  *)
(* A report is the sequence of its sections; the sections other than the   *)
(* customer analysis are computed from columns every generated table has   *)
(* and are kept by name only.                                              *)
(***************************************************************************)
MaxReportRows == 4

\* segment_customers(self, data, n_clusters=4)
DefaultClusters == 4

\* what a call of segment_customers(data_, n_clusters) can yield
SegmentOutcomes(data_, n_clusters) ==
    LET called == CalculateRfmMetrics(data_)
    IN  IF Len(data_) = 0 THEN {SegEmpty(n_clusters)}
        ELSE IF called.outcome = "raised" THEN {SegRaised(n_clusters)}
        ELSE IF Len(called.rfm) = 0 \/ Len(called.rfm) < n_clusters
        THEN {SegEmpty(n_clusters)}
        ELSE {SegSegmented(data_, n_clusters, called.rfm, cluster_labels) :
                 cluster_labels \in KMeansLabelings(called.rfm, n_clusters)}

\* customer_segments=None
NoSegments == [given |-> FALSE]

\* customer_segments = {'segment_stats': segment_stats}
WithSegments(segment_stats) == [given |-> TRUE, segment_stats |-> segment_stats]

\* _customer_analysis_template: max() over the entries of segment_stats
\* raises ValueError when there is none
CustomerAnalysisTemplate(customer_segments) ==
    IF ~customer_segments.given
    THEN Returned("customer_not_available")
    ELSE IF DOMAIN customer_segments.segment_stats = {}
    THEN Raised("ValueError")
    ELSE Returned("customer_analysis")

\* generate_comprehensive_report for a non-empty table; a dict with the key
\* 'segment_stats' is truthy whatever the key holds
GenerateComprehensiveReport(data_, customer_segments) ==
    IF Len(data_) = 0 THEN Returned(<<"no_data">>)
    ELSE
    LET customer == CustomerAnalysisTemplate(customer_segments)
        before == <<"header", "executive_summary", "sales_performance">>
        after == <<"product_performance", "operational_insights",
                   "recommendations", "footer">>
    IN  IF ~customer_segments.given THEN Returned(before \o after)
        ELSE IF customer.outcome = "raised" THEN customer
        ELSE Returned(before \o <<customer.frame>> \o after)

\* the handler of a report button: an exception leaves the script run and
\* the stored report as it was
StoreReport(report) ==
    IF report.outcome = "raised"
    THEN /\ report_error' = report.error
         /\ UNCHANGED generated_report
    ELSE /\ generated_report' = report.frame
         /\ report_error' = "none"

\* show_reports, lines 1124-1131: Generate Executive Summary
ExecutiveSummaryReport ==
    /\ Len(data) > 0
    /\ StoreReport(GenerateComprehensiveReport(data, NoSegments))
    /\ table_frame' = CalculateMetricsFrameAfter(table_frame, data, absent)
    /\ UNCHANGED <<data, detVars, segVars, rtVars, nameVars, streamVars, metricVars>>

\* show_reports, lines 1133-1142: Customer Analysis Report
CustomerAnalysisReport ==
    /\ Len(data) > 0
    /\ \E segmented \in SegmentOutcomes(data, DefaultClusters) :
          /\ seg_out' = segmented
          /\ IF segmented.outcome = "returned" /\ Len(segmented.rfm) > 0
             THEN /\ kmeans_model' = DefaultClusters
                  /\ is_fitted' = TRUE
             ELSE UNCHANGED <<is_fitted, kmeans_model>>
          /\ IF segmented.outcome = "raised"
             THEN StoreReport(Raised(segmented.error))
             ELSE StoreReport(GenerateComprehensiveReport(
                                  data, WithSegments(segmented.segment_stats)))
    /\ table_frame' = CalculateRfmFrameAfter(
                    CalculateMetricsFrameAfter(table_frame, data, absent), data, absent)
    /\ UNCHANGED <<data, rfm_out, detVars, rtVars, nameVars, streamVars, metricVars>>

\* tables of up to MaxReportRows rows: row i is a sale of customer 1 or of
\* customer i, on day 0 or day i - 1, of 10 or of 10 * i
ReportTables ==
    UNION {{[i \in 1..n |->
                Row(IF own[i][1] THEN i ELSE 1,
                    IF own[i][2] THEN i - 1 ELSE 0,
                    Noon,
                    IF own[i][3] THEN 10 * i ELSE 10,
                    1)] :
               own \in [1..n -> BOOLEAN \X BOOLEAN \X BOOLEAN]} :
           n \in 0..MaxReportRows}

ReportInit ==
    /\ data \in ReportTables
    /\ absent = {}
    /\ forest = {}
    /\ DetInitial
    /\ SegInitial
    /\ RtInitial
    /\ NameInitial
    /\ StreamInitial
    /\ ReportInitial
    /\ TableInitial

ReportNext ==
    \/ ExecutiveSummaryReport
    \/ CustomerAnalysisReport

ReportSpec == ReportInit /\ [][ReportNext]_vars

(***************************************************************************)
(* app.py: generate_data_batch and stream_data, run by the streaming       *)
(* thread and by the script run of the UI on the one st.session_state.     *)
(* The sizes are scaled down: the table keeps RetentionCap rows (1000 in   *)
(* the source), a batch has BatchSize rows (10), and a row's timestamp     *)
(* lies up to MaxSpread before its batch's creation time (300 seconds),    *)
(* with SleepSeconds between two creation times.  At most MaxBatches       *)
(* batches are generated.                                                  *)
(***************************************************************************)
RetentionCap == 3

BatchSize == 2

MaxSpread == 3

MaxBatches == 2

SleepSeconds == 2

\* random.uniform(-300, 0), its two ends
TimeOffsets == {-MaxSpread, 0}

\* RetailDataGenerator.generate_batch at creation time start_time: row k of
\* batch number batch, stamped start_time + offsets[k]
GeneratedBatch(batch, start_time, offsets) ==
    [k \in 1..BatchSize |->
        [batch |-> batch, k |-> k, timestamp |-> start_time + offsets[k]]]

\* faulty variant: the first n rows
FirstRows(rows, n) ==
    IF Len(rows) <= n THEN rows ELSE SubSeq(rows, 1, n)

\* DataFrame.tail(n)
LastRows(rows, n) ==
    IF Len(rows) <= n THEN rows ELSE SubSeq(rows, Len(rows) - n + 1, Len(rows))

\* the rows tail(n) leaves out
DroppedRows(rows, n) ==
    IF Len(rows) <= n THEN <<>> ELSE SubSeq(rows, 1, Len(rows) - n)

\* where a thread goes on after generate_data_batch returns
AfterBatch(t) == IF t \in StreamThreads THEN "sleep" ELSE "idle"

\* threading.Thread.is_alive() of thread t
Alive(t) == pc[t] \notin {"not_started", "finished"}

\* the calls of generate_data_batch that have not drawn their batch yet
Entered == {t \in Threads : pc[t] = "generate"}

\* a further call stays within MaxBatches
MayEnter == clock + Cardinality(Entered) < MaxBatches

\* line 349: batch_data = generate_batch(batch_size=10)
GenerateBatch(t) ==
    /\ pc[t] = "generate"
    /\ clock < MaxBatches
    /\ clock' = clock + 1
    /\ \E offsets \in [1..BatchSize -> TimeOffsets] :
          batch_data' = [batch_data EXCEPT
                            ![t] = GeneratedBatch(clock + 1,
                                                  SleepSeconds * (clock + 1),
                                                  offsets)]
    /\ pc' = [pc EXCEPT ![t] = "concat"]
    /\ UNCHANGED <<sales_data, is_streaming, last_update, staged, evicted>>
    /\ UNCHANGED <<streaming_thread, after_stop>>

\* lines 352-355, the right-hand side: the table is read and the batch put
\* after it (an empty table gives the batch itself)
ConcatBatch(t) ==
    /\ pc[t] = "concat"
    /\ staged' = [staged EXCEPT ![t] = sales_data \o batch_data[t]]
    /\ pc' = [pc EXCEPT ![t] = "store_concat"]
    /\ UNCHANGED <<sales_data, is_streaming, last_update, clock, batch_data,
                   evicted, streaming_thread, after_stop>>

\* lines 353 and 355, the assignment to st.session_state.sales_data;
\* after_stop counts the batches the streaming thread appends while the
\* last press was Stop
StoreConcat(t) ==
    /\ pc[t] = "store_concat"
    /\ sales_data' = staged[t]
    /\ pc' = [pc EXCEPT ![t] = "test_cap"]
    /\ after_stop' = IF t \in StreamThreads /\ after_stop >= 0
                     THEN after_stop + 1 ELSE after_stop
    /\ UNCHANGED <<is_streaming, last_update, clock, batch_data, staged,
                   evicted, streaming_thread>>

\* line 358: if len(st.session_state.sales_data) > 1000
TestCap(t) ==
    /\ pc[t] = "test_cap"
    /\ pc' = [pc EXCEPT
                 ![t] = IF Len(sales_data) > RetentionCap
                        THEN "tail" ELSE "stamp"]
    /\ UNCHANGED <<sales_data, is_streaming, last_update, clock, batch_data,
                   staged, evicted, streaming_thread, after_stop>>

\* line 359, the right-hand side: tail(1000).reset_index(drop=True)
TakeTail(t) ==
    /\ pc[t] = "tail"
    /\ staged' = [staged EXCEPT ![t] = LastRows(sales_data, RetentionCap)]
    /\ evicted' = [evicted EXCEPT ![t] = DroppedRows(sales_data, RetentionCap)]
    /\ pc' = [pc EXCEPT ![t] = "store_tail"]
    /\ UNCHANGED <<sales_data, is_streaming, last_update, clock, batch_data,
                   streaming_thread, after_stop>>

\* line 359, the assignment
StoreTail(t) ==
    /\ pc[t] = "store_tail"
    /\ sales_data' = staged[t]
    /\ pc' = [pc EXCEPT ![t] = "stamp"]
    /\ UNCHANGED <<is_streaming, last_update, clock, batch_data, staged,
                   evicted, streaming_thread, after_stop>>

\* line 361: last_update = datetime.now(), and the return, which ends the
\* call's locals
StampUpdate(t) ==
    /\ pc[t] = "stamp"
    /\ last_update' = SleepSeconds * clock
    /\ pc' = [pc EXCEPT ![t] = AfterBatch(t)]
    /\ batch_data' = [batch_data EXCEPT ![t] = <<>>]
    /\ staged' = [staged EXCEPT ![t] = <<>>]
    /\ evicted' = [evicted EXCEPT ![t] = <<>>]
    /\ UNCHANGED <<sales_data, is_streaming, clock, streaming_thread,
                   after_stop>>

GenerateDataBatch(t) ==
    \/ GenerateBatch(t)
    \/ ConcatBatch(t)
    \/ StoreConcat(t)
    \/ TestCap(t)
    \/ TakeTail(t)
    \/ StoreTail(t)
    \/ StampUpdate(t)

\* faulty variant: the loop goes on whatever is_streaming holds
StreamTestIgnoringFlag(t) ==
    /\ pc[t] = "test_streaming"
    /\ MayEnter
    /\ pc' = [pc EXCEPT ![t] = "generate"]
    /\ UNCHANGED <<sales_data, is_streaming, last_update, clock, batch_data,
                   staged, evicted, streaming_thread, after_stop>>

\* stream_data, line 367: while getattr(st.session_state, 'is_streaming', False);
\* with the condition false the function is left, the thread still alive
StreamTest(t) ==
    /\ pc[t] = "test_streaming"
    /\ is_streaming => MayEnter
    /\ pc' = [pc EXCEPT ![t] = IF is_streaming THEN "generate" ELSE "exiting"]
    /\ UNCHANGED <<sales_data, is_streaming, last_update, clock, batch_data,
                   staged, evicted, streaming_thread, after_stop>>

\* line 369: time.sleep(2)
StreamSleep(t) ==
    /\ pc[t] = "sleep"
    /\ pc' = [pc EXCEPT ![t] = "test_streaming"]
    /\ UNCHANGED <<sales_data, is_streaming, last_update, clock, batch_data,
                   staged, evicted, streaming_thread, after_stop>>

\* lines 370-372: an exception raised by an access of st.session_state from
\* the thread is caught outside the loop and passed over
StreamExcept(t) ==
    /\ pc[t] \in {"test_streaming", "concat", "store_concat", "test_cap",
                  "tail", "store_tail", "stamp"}
    /\ pc' = [pc EXCEPT ![t] = "except"]
    /\ batch_data' = [batch_data EXCEPT ![t] = <<>>]
    /\ staged' = [staged EXCEPT ![t] = <<>>]
    /\ evicted' = [evicted EXCEPT ![t] = <<>>]
    /\ UNCHANGED <<sales_data, is_streaming, last_update, clock,
                   streaming_thread, after_stop>>

\* stream_data returns and the thread ends
StreamExit(t) ==
    /\ pc[t] \in {"exiting", "except"}
    /\ pc' = [pc EXCEPT ![t] = "finished"]
    /\ UNCHANGED <<sales_data, is_streaming, last_update, clock, batch_data,
                   staged, evicted, streaming_thread, after_stop>>

\* hasattr(st.session_state, 'streaming_thread') and
\* st.session_state.streaming_thread.is_alive()
ThreadAlive == streaming_thread # "none" /\ Alive(streaming_thread)

\* the threads of the session that are alive
AliveThreads == {t \in StreamThreads : Alive(t)}

\* threading.Thread(target=stream_data, daemon=True): a thread that is not
\* one of the alive ones
NewThread == CHOOSE t \in StreamThreads :
                 /\ ~Alive(t)
                 /\ \A u \in StreamThreads : ~Alive(u) => ThreadOrder[t] <= ThreadOrder[u]

\* faulty variant: Start creates a thread whether or not one is alive
StartThreadAlways == TRUE

\* lines 507 and 561: if not hasattr(...) or not ...is_alive()
StartThread == ~ThreadAlive

\* the Start buttons (lines 504-513 and 559-567)
PressStart ==
    /\ pc["ui"] = "idle"
    /\ is_streaming' = TRUE
    /\ after_stop' = -1
    /\ IF StartThread
       THEN /\ AliveThreads # StreamThreads
            /\ streaming_thread' = NewThread
            /\ pc' = [pc EXCEPT ![NewThread] = "test_streaming"]
       ELSE UNCHANGED <<streaming_thread, pc>>
    /\ UNCHANGED <<sales_data, last_update, clock, batch_data, staged, evicted>>

\* the Stop button (lines 570-572), disabled while not streaming
PressStop ==
    /\ pc["ui"] = "idle"
    /\ is_streaming
    /\ is_streaming' = FALSE
    /\ after_stop' = 0
    /\ UNCHANGED <<sales_data, last_update, clock, pc, batch_data, staged,
                   evicted, streaming_thread>>

\* the Generate buttons (lines 494-495, 574-575; 541-543 and 817-819 call
\* generate_data_batch several times in a row)
PressGenerate ==
    /\ pc["ui"] = "idle"
    /\ MayEnter
    /\ pc' = [pc EXCEPT !["ui"] = "generate"]
    /\ UNCHANGED <<sales_data, is_streaming, last_update, clock, batch_data,
                   staged, evicted, streaming_thread, after_stop>>

(***************************************************************************)
(* generate_data_batch called by the UI alone, one call after another,     *)
(* with the transaction_id of the rows: each is drawn from NumIds values   *)
(* (900000 in the source).                                                 *)
(***************************************************************************)
NumIds == 3

\* f"TXN_{random.randint(100000, 999999)}"
TransactionIds == 1..NumIds

\* the batch with the transaction_id column
WithTransactionIds(batch, ids) ==
    [k \in DOMAIN batch |-> [transaction_id |-> ids[k]] @@ batch[k]]

\* lines 352-359 run without interruption
TableAfterBatch(table, batch) ==
    LET joined == table \o batch
    IN  IF Len(joined) > RetentionCap THEN LastRows(joined, RetentionCap)
        ELSE joined

GenerateDataBatchAlone ==
    /\ pc["ui"] = "idle"
    /\ ~ThreadAlive
    /\ clock < MaxBatches
    /\ clock' = clock + 1
    /\ \E offsets \in [1..BatchSize -> TimeOffsets],
          ids \in [1..BatchSize -> TransactionIds] :
          sales_data' =
              TableAfterBatch(
                  sales_data,
                  WithTransactionIds(
                      GeneratedBatch(clock + 1, SleepSeconds * (clock + 1), offsets),
                      ids))
    /\ last_update' = SleepSeconds * (clock + 1)
    /\ UNCHANGED <<is_streaming, pc, batch_data, staged, evicted>>
    /\ UNCHANGED <<streaming_thread, after_stop>>
    /\ UNCHANGED <<data, detVars, segVars, rtVars, nameVars, reportVars>>
    /\ UNCHANGED <<metricVars, table_frame>>

StreamInit ==
    /\ data = <<>>
    /\ absent = {}
    /\ forest = {}
    /\ DetInitial
    /\ SegInitial
    /\ RtInitial
    /\ NameInitial
    /\ StreamInitial
    /\ ReportInitial
    /\ TableInitial

StreamNext ==
    /\ \/ PressStart
       \/ PressStop
       \/ PressGenerate
       \/ \E t \in StreamThreads : StreamTest(t)
       \/ \E t \in StreamThreads : StreamSleep(t)
       \/ \E t \in StreamThreads : StreamExcept(t)
       \/ \E t \in StreamThreads : StreamExit(t)
       \/ \E t \in Threads : GenerateDataBatch(t)
    /\ UNCHANGED <<data, detVars, segVars, rtVars, nameVars, reportVars>>
    /\ UNCHANGED <<metricVars, table_frame>>

StreamSpec == StreamInit /\ [][StreamNext]_vars

\* what a streaming thread does when it is scheduled, exceptions left out
ThreadStep(t) ==
    /\ \/ StreamTest(t)
       \/ StreamSleep(t)
       \/ StreamExit(t)
       \/ GenerateDataBatch(t)
    /\ UNCHANGED <<data, detVars, segVars, rtVars, nameVars, reportVars>>
    /\ UNCHANGED <<metricVars, table_frame>>

\* a started thread is scheduled again and again and its sleep ends
FairStreamSpec ==
    StreamSpec /\ \A t \in StreamThreads : WF_vars(ThreadStep(t))

GenInit == StreamInit

GenNext == GenerateDataBatchAlone

GenSpec == GenInit /\ [][GenNext]_vars

(***************************************************************************)
(* Properties of the anomaly detector, checked under Spec.                 *)
(***************************************************************************)
IsoFrame == results["isolation_forest"].frame

StatFrame == results["statistical"].frame

CombinedFrame == results["combined"].frame

Called(method) == results[method].outcome = "returned"

AmountColumn == Column(data, "total_amount")

QuantityColumn == Column(data, "quantity")

\* |z| > t for value x of a column, from the column's mean and sample
\* standard deviation: (x - sum/n)^2 > t^2 * varn / (n * (n - 1))
ZExceeds(col, x, t) ==
    /\ Len(col) >= 2
    /\ VarN(col) # 0
    /\ ProdGT((Len(col) * x - SumSeq(col)) * (Len(col) * x - SumSeq(col)),
              Len(col) - 1, t * t * Len(col), VarN(col))

AmountZExceeds(i) == ZExceeds(AmountColumn, AmountColumn[i], 3)

QuantityZExceeds(i) == ZExceeds(QuantityColumn, QuantityColumn[i], 3)

MinuteOfDay(i) == data[i].hour * 60 + data[i].minute

\* C4: the rows of the combined result are exactly the rows of the
\* isolation-forest result together with the rows of the statistical
\* result on the same table.
C4_CombinedIsUnion ==
    (Called("combined") /\ Called("isolation_forest") /\ Called("statistical"))
        => DOMAIN CombinedFrame = (DOMAIN IsoFrame) \cup (DOMAIN StatFrame)

\* C4 happens: both detectors flag rows, and neither result holds the other
C4_Witness ==
    /\ Called("combined") /\ Called("isolation_forest") /\ Called("statistical")
    /\ (DOMAIN IsoFrame) \ (DOMAIN StatFrame) # {}
    /\ (DOMAIN StatFrame) \ (DOMAIN IsoFrame) # {}
    /\ (DOMAIN IsoFrame) \cup (DOMAIN StatFrame) \subseteq DOMAIN CombinedFrame

\* C5: when the amounts have a nonzero sample standard deviation, the
\* statistical result holds every row whose amount z-score exceeds 3.
C5_AmountZRowsAreFlagged ==
    (Called("statistical") /\ Len(data) >= 2 /\ VarN(AmountColumn) # 0)
        => \A i \in 1..Len(data) : AmountZExceeds(i) => i \in DOMAIN StatFrame

\* C5 happens: a row stands out by its amount alone and is in the result
C5_Witness ==
    /\ Called("statistical")
    /\ \E i \in DOMAIN StatFrame :
          /\ AmountZExceeds(i)
          /\ ~QuantityZExceeds(i)
          /\ data[i].hour >= 6

IqrIsZero ==
    QuantileTimes(SortedValues(AmountColumn), 3, 4)
        = QuantileTimes(SortedValues(AmountColumn), 1, 4)

NothingVaries ==
    /\ Len(data) >= 1
    /\ VarN(AmountColumn) = 0
    /\ IqrIsZero
    /\ VarN(QuantityColumn) = 0

AmountZScoreOf(i) ==
    [kind |-> "zscore",
     z |-> [dev |-> Abs(Len(data) * AmountColumn[i] - SumSeq(AmountColumn)),
            n |-> Len(data), varn |-> VarN(AmountColumn)]]

\* the score equals 1.0
ScoreIsOne(score) ==
    \/ score = FixedScore(10)
    \/ /\ score.kind = "zscore"
       /\ ProdEQ(score.z.dev * score.z.dev, score.z.n - 1, score.z.n, score.z.varn)

\* C8 as stated: a row flagged by the amount z-score test carries that
\* z-score, and every row flagged only by another rule carries 1.0.
C8_Original ==
    Called("statistical")
        => \A i \in DOMAIN StatFrame :
              IF AmountZExceeds(i) THEN StatFrame[i] = AmountZScoreOf(i)
              ELSE ScoreIsOne(StatFrame[i])

\* C8 amended: when the amounts have a positive sample standard deviation,
\* every row of the result carries its own amount z-score as anomaly_score,
\* whichever rule flagged it; the rows carry 1.0 only when that deviation is
\* zero or undefined.
C8_ScoreIsAmountZScore ==
    Called("statistical")
        => \A i \in DOMAIN StatFrame :
              IF Len(data) >= 2 /\ VarN(AmountColumn) # 0
              THEN StatFrame[i] = AmountZScoreOf(i)
              ELSE StatFrame[i] = FixedScore(10)

\* C8 happens: one row flagged by the amount z-score test and one flagged
\* only by another rule, in one result
C8_Witness ==
    /\ Called("statistical")
    /\ \E i, j \in DOMAIN StatFrame :
          /\ AmountZExceeds(i)
          /\ ~AmountZExceeds(j)
          /\ StatFrame[j] = AmountZScoreOf(j)
          /\ ~ScoreIsOne(StatFrame[j])

\* C9 as stated: the time-of-day rule flags every transaction before 06:00
\* or after 23:00, and no transaction inside 06:00-23:00 on account of its
\* time.
C9_Original ==
    Called("statistical")
        => /\ \A i \in 1..Len(data) :
                 (MinuteOfDay(i) < 6 * 60 \/ MinuteOfDay(i) > 23 * 60)
                     => i \in DOMAIN StatFrame
           /\ \A i \in DOMAIN StatFrame :
                 \/ MinuteOfDay(i) < 6 * 60
                 \/ MinuteOfDay(i) > 23 * 60
                 \/ i \in AmountAnomalies(data) \cup IqrAnomalies(data)
                 \/ i \in QuantityAnomalies(data)

\* the example table: 20 rows, 19 of amount 20 and the last of amount 1000
UniformWithOutlier ==
    /\ Len(data) = 20
    /\ \A i \in 1..19 : data[i].total_amount = 20
    /\ data[20].total_amount = 1000

\* C10 as stated: the outlier row of the example table satisfies the amount
\* z-score rule and the IQR rule.
C10_Original ==
    (Called("statistical") /\ UniformWithOutlier)
        => 20 \in AmountAnomalies(data) /\ 20 \in IqrAnomalies(data)

\* C10 amended: the outlier row of the example table satisfies the amount
\* z-score rule and is in the statistical result; the IQR rule is inactive
\* on this table (Q1 = Q3 = 20, so IQR = 0) and flags no row.
C10_OutlierByZScoreOnly ==
    (Called("statistical") /\ UniformWithOutlier)
        => /\ AmountZExceeds(20)
           /\ 20 \in AmountAnomalies(data)
           /\ 20 \in DOMAIN StatFrame
           /\ IqrIsZero
           /\ IqrAnomalies(data) = {}

\* C10 happens: the statistical method has run on the example table
C10_Witness ==
    /\ Called("statistical")
    /\ UniformWithOutlier
    /\ 20 \in DOMAIN StatFrame
\* C11: on a table of fewer than 10 rows the isolation-forest method returns
\* the empty result, and neither the scaler nor the forest is fitted by any
\* call on that table.
C11_FewRowsNoForest ==
    Len(data) < 10
        => /\ Called("isolation_forest") => IsoFrame = EmptyFrame
           /\ ~det_fitted

\* C11 happens: the method has returned on a table of 9 rows, one of which
\* the forest would have labelled had it been fitted
C11_Witness ==
    /\ Len(data) = 9
    /\ forest # {}
    /\ Called("isolation_forest")
    /\ IsoFrame = EmptyFrame

\* C12: every row of the combined result carries anomaly_score 0.8.
C12_CombinedScoreFixed ==
    Called("combined")
        => \A i \in DOMAIN CombinedFrame : CombinedFrame[i] = FixedScore(8)

\* C12 happens: the combined result holds a row that both detectors flagged
\* and a row that only the statistical rules flagged, which carries a
\* z-score in the statistical result
C12_Witness ==
    /\ Called("combined") /\ Called("isolation_forest") /\ Called("statistical")
    /\ \E j, k \in DOMAIN CombinedFrame :
          /\ j \in (DOMAIN StatFrame) \ (DOMAIN IsoFrame)
          /\ StatFrame[j].kind = "zscore"
          /\ k \in (DOMAIN IsoFrame) \cap (DOMAIN StatFrame)

(***************************************************************************)
(* Properties of detect_anomalies under any method name, checked under     *)
(* CallSpec.                                                               *)
(***************************************************************************)
\* a column _prepare_features reads is missing
PreparationFails == absent \cap {"unit_price", "quantity"} # {}

\* C13 as stated: a call with an unsupported method name is rejected with
\* ValueError, whatever the table.
C13_Original ==
    results["dbscan"].outcome # "not_called"
        => results["dbscan"] = Raised("ValueError")

\* C14: under a supported method name no exception leaves detect_anomalies,
\* and when feature preparation fails every supported method returns the
\* empty result.
C14_NoExceptionEscapes ==
    \A method \in Methods :
        /\ results[method].outcome \in {"not_called", "returned"}
        /\ (Called(method) /\ PreparationFails)
               => results[method].frame = EmptyFrame

\* C14 happens: feature preparation has failed for want of unit_price, a
\* column the statistical rules do not read, on a table with an early row,
\* and all three methods have returned the empty result
C14_Witness ==
    /\ absent = {"unit_price"}
    /\ \E i \in 1..Len(data) : data[i].hour < 6
    /\ \A method \in Methods : Called(method) /\ results[method].frame = EmptyFrame

(***************************************************************************)
(* Properties of detect_real_time_anomalies, checked under RtSpec.         *)
(***************************************************************************)
RtCalled == rt_out.outcome = "returned"

\* the call went through its try block to the full verdict
RtScored == RtCalled /\ "anomaly_score" \in DOMAIN rt_out.value

CandidateAmount ==
    IF "total_amount" \in DOMAIN new_transaction.fields
    THEN new_transaction.fields["total_amount"] ELSE 0

CandidateQuantity ==
    IF "quantity" \in DOMAIN new_transaction.fields
    THEN new_transaction.fields["quantity"] ELSE 0

\* the history rows of the candidate's category
SameCategoryRows ==
    SelectSeq(data, LAMBDA r : "category" \in DOMAIN new_transaction.fields
                                 /\ r.category = new_transaction.fields["category"])

\* the z-score of x against a reference column, 0 when the column's sample
\* standard deviation is zero or undefined
ReferenceZ(col, x) ==
    IF Len(col) >= 2 /\ VarN(col) # 0
    THEN [dev |-> Abs(Len(col) * x - SumSeq(col)), n |-> Len(col),
          varn |-> VarN(col)]
    ELSE ZeroScore

AmountZ == ReferenceZ(AmountColumn, CandidateAmount)

QuantityZ == ReferenceZ(QuantityColumn, CandidateQuantity)

CategoryZ == ReferenceZ(Column(SameCategoryRows, "total_amount"), CandidateAmount)

\* z > threshold_std, strictly
OverThreshold(z) ==
    \/ threshold_std < 0
    \/ ProdGT(z.dev * z.dev, z.n - 1, threshold_std * threshold_std * z.n, z.varn)

ZSame(z1, z2) == ~ZScoreGreater(z1, z2) /\ ~ZScoreGreater(z2, z1)

\* what the verdict reports whichever components count as exceeding
ScoresAsComputed ==
    /\ ZSame(rt_out.value.amount_zscore, AmountZ)
    /\ ZSame(rt_out.value.quantity_zscore, QuantityZ)
    /\ ZSame(rt_out.value.category_zscore, CategoryZ)
    /\ \E z \in {AmountZ, QuantityZ, CategoryZ} : ZSame(rt_out.value.anomaly_score, z)
    /\ \A z \in {AmountZ, QuantityZ, CategoryZ} :
          ~ZScoreGreater(z, rt_out.value.anomaly_score)
    /\ (rt_out.value.reasons = <<>>) <=> ~rt_out.value.is_anomaly

Count(b) == IF b THEN 1 ELSE 0

RtInternalError ==
    \/ new_transaction.kind = "Series"
          /\ ~({"total_amount", "quantity", "category"}
                   \subseteq DOMAIN new_transaction.fields)
    \/ absent \cap {"total_amount", "quantity", "category"} # {}

\* C16: detect_real_time_anomalies never raises; with an empty history it
\* returns is_anomaly = false with the reason 'No historical data', and on
\* an internal exception is_anomaly = false with a reason naming the error.
C16_NeverRaises ==
    /\ rt_out.outcome \in {"not_called", "returned"}
    /\ (RtCalled /\ Len(data) = 0) => rt_out.value = NoHistoryVerdict
    /\ (RtCalled /\ Len(data) >= 1 /\ RtInternalError)
          => /\ rt_out.value.is_anomaly = FALSE
             /\ rt_out.value.reason = "Error in detection"

\* C16 happens: a Series candidate without the category key against a
\* history that has rows, answered with the error verdict
C16_Witness ==
    /\ RtCalled
    /\ Len(data) >= 1
    /\ new_transaction.kind = "Series"
    /\ "category" \notin DOMAIN new_transaction.fields
    /\ rt_out.value.is_anomaly = FALSE
    /\ rt_out.value.reason = "Error in detection"

(***************************************************************************)
(* Properties of _assign_segment_names, checked under NameSpec.            *)
(***************************************************************************)
\* the median of the clusters' means in column f, times 2
MedianOfMeansTimes2(f) ==
    LET S == DOMAIN cluster_summary
        n == Cardinality(S)
        IsKth(v, k) ==
            /\ Cardinality({c \in S : cluster_summary[c][f] < v}) < k
            /\ k <= Cardinality({c \in S : cluster_summary[c][f] <= v})
        kth(k) == CHOOSE v \in {cluster_summary[c][f] : c \in S} : IsKth(v, k)
    IN  IF n % 2 = 1 THEN 2 * kth((n + 1) \div 2)
        ELSE kth(n \div 2) + kth(n \div 2 + 1)

TestF(c) == 2 * cluster_summary[c].frequency >= MedianOfMeansTimes2("frequency")

TestM(c) == 2 * cluster_summary[c].monetary >= MedianOfMeansTimes2("monetary")

TestR(c) == 2 * cluster_summary[c].recency <= MedianOfMeansTimes2("recency")

NameTable(F, M, R) ==
    CASE F /\ M /\ R -> "Champions"
      [] F /\ M /\ ~R -> "Loyal Customers"
      [] F /\ ~M /\ R -> "Potential Loyalists"
      [] F /\ ~M /\ ~R -> "At Risk"
      [] ~F /\ M /\ R -> "New Customers"
      [] ~F /\ M /\ ~R -> "Hibernating"
      [] ~F /\ ~M /\ R -> "Promising"
      [] ~F /\ ~M /\ ~R -> "Lost Customers"

\* C18: every cluster of the summary gets exactly the name the table of the
\* three median tests F, M, R gives it.
C18_NamesFollowTable ==
    names_out.outcome = "returned"
        => /\ DOMAIN names_out.segment_names = DOMAIN cluster_summary
           /\ \A c \in DOMAIN cluster_summary :
                 names_out.segment_names[c]
                     = NameTable(TestF(c), TestM(c), TestR(c))

\* C18 happens: three clusters, each failing a different one of the three
\* tests, named New Customers, Potential Loyalists and Loyal Customers
C18_Witness ==
    /\ names_out.outcome = "returned"
    /\ \E a, b, c \in DOMAIN names_out.segment_names :
          /\ names_out.segment_names[a] = "New Customers"
          /\ names_out.segment_names[b] = "Potential Loyalists"
          /\ names_out.segment_names[c] = "Loyal Customers"

(***************************************************************************)
(* Properties of the customer segmentation, checked under SegSpec.         *)
(***************************************************************************)
NumCustomers == Cardinality(CustomerIds(data))

SegCalled == seg_out.outcome # "not_called"

\* the minutes from customer c's latest transaction to the table's latest
SinceLatest(c) ==
    LET stamps(S) == {data[i].day * 1440 + data[i].hour * 60 + data[i].minute :
                         i \in S}
        all == stamps(1..Len(data))
        own == stamps({i \in 1..Len(data) : data[i].customer_id = c})
    IN  (CHOOSE x \in all : \A y \in all : y <= x)
            - (CHOOSE x \in own : \A y \in own : y <= x)

RfmTable == rfm_out.rfm

\* C17: in the RFM table every customer's recency is >= 0 and is the whole
\* number of days from the customer's latest timestamp to the latest
\* timestamp of the table, and some customer has recency 0.
C17_RecencyFromTableMax ==
    (rfm_out.outcome = "returned" /\ Len(data) >= 1)
        => /\ \A k \in 1..Len(RfmTable) :
                 /\ RfmTable[k].recency >= 0
                 /\ RfmTable[k].recency * 1440 <= SinceLatest(RfmTable[k].customer_id)
                 /\ SinceLatest(RfmTable[k].customer_id)
                       < (RfmTable[k].recency + 1) * 1440
           /\ \E k \in 1..Len(RfmTable) : RfmTable[k].recency = 0

\* C17 happens: an RFM table with a customer whose latest purchase is a day
\* and some hours before the table's latest, so recency 1, beside the
\* customer of the latest purchase
C17_Witness ==
    /\ rfm_out.outcome = "returned"
    /\ \E j, k \in 1..Len(RfmTable) :
          /\ RfmTable[j].recency = 1
          /\ SinceLatest(RfmTable[j].customer_id) > 1440
          /\ RfmTable[k].recency = 0

\* C1: segment_customers(data, K) on a table of at least K distinct
\* customers returns exactly K segment names and never raises.
C1_Original ==
    (SegCalled /\ NumCustomers >= seg_out.n_clusters)
        => /\ seg_out.outcome = "returned"
           /\ Cardinality(DOMAIN seg_out.segment_names) = seg_out.n_clusters

\* C2: calculate_rfm_metrics never raises, also when the quantile bins of a
\* tied recency, frequency or monetary column collapse: it returns the RFM
\* table, one row per customer with its three scores.
C2_Original ==
    (rfm_out.outcome # "not_called" /\ Len(data) >= 1)
        => /\ rfm_out.outcome = "returned"
           /\ Len(rfm_out.rfm) = NumCustomers
           /\ \A k \in 1..Len(rfm_out.rfm) :
                 /\ rfm_out.rfm[k].recency_score \in 1..NumBins
                 /\ rfm_out.rfm[k].frequency_score \in 1..NumBins
                 /\ rfm_out.rfm[k].monetary_score \in 1..NumBins

\* C3: segment_customers(data, K) returns the empty result whenever the
\* table is empty or holds fewer than K customers.
C3_Original ==
    (SegCalled /\ (Len(data) = 0 \/ NumCustomers < seg_out.n_clusters))
        => seg_out = SegEmpty(seg_out.n_clusters)


(***************************************************************************)
(* Properties of the streaming table, checked under StreamSpec.            *)
(***************************************************************************)
\* a call of generate_data_batch by thread t has evaluated tail(1000) and is
\* about to store it
Trimming(t) == pc[t] = "store_tail"

Timestamps(rows) == {rows[i].timestamp : i \in DOMAIN rows}

\* C19, as stated: in every reachable state, the states inside
\* generate_data_batch included, the table holds at most RetentionCap
\* (1000) rows.
C19_Original == Len(sales_data) <= RetentionCap

\* C20, as stated: when generate_data_batch trims the table, no evicted
\* record has a timestamp later than a retained record's.
C20_Original ==
    \A t \in Threads :
        Trimming(t) =>
            \A e \in Timestamps(evicted[t]) :
                \A r \in Timestamps(staged[t]) : e <= r

\* C20, amended: the trim evicts by position, not by timestamp: the retained
\* records are the last RetentionCap (1000) rows of the table it reads, all
\* of them when a concurrent call has already shortened the table, and the
\* evicted records are the rows before them, in the table's row order.
C20_EvictsLeadingRows ==
    [][\A t \in Threads :
          (pc[t] = "tail" /\ pc'[t] = "store_tail") =>
              /\ evicted'[t] \o staged'[t] = sales_data
              /\ \/ Len(staged'[t]) = RetentionCap
                 \/ /\ Len(sales_data) < RetentionCap
                    /\ evicted'[t] = <<>>]_vars

\* a trim that evicts a record stamped later than a record it retains
C20_Witness ==
    \E t \in Threads :
        /\ Trimming(t)
        /\ \E e \in Timestamps(evicted[t]) :
              \E r \in Timestamps(staged[t]) : e > r

(***************************************************************************)
(* Properties of the threads of a session, checked under StreamSpec and    *)
(* FairStreamSpec.                                                         *)
(***************************************************************************)
\* the records of a table
Records(rows) == {rows[i] : i \in DOMAIN rows}

\* C25, as stated: no write of generate_data_batch overwrites the write of
\* another call: a record leaves the table only by being left out by a
\* trim, so that after two overlapping calls the table holds the rows of
\* both.
C25_Original ==
    [][Records(sales_data) \subseteq
           Records(sales_data') \cup UNION {Records(evicted[t]) : t \in Threads}]_vars

\* C26: after Stop, and as long as Start is not pressed again, the streaming
\* thread appends at most one further batch, it terminates, and once it has
\* terminated the table is written only by a call from a button.
C26_StopsAfterInFlightBatch ==
    /\ [](after_stop <= 1)
    /\ (after_stop >= 0) ~> (after_stop = -1 \/ AliveThreads = {})
    /\ [][(after_stop >= 0 /\ AliveThreads = {} /\ sales_data' # sales_data)
              => pc["ui"] \in {"store_concat", "store_tail"}]_vars

\* the thread has appended the batch in flight at the Stop and has ended
C26_Witness ==
    /\ after_stop = 1
    /\ streaming_thread # "none"
    /\ pc[streaming_thread] = "finished"

\* C27, as stated: while is_streaming is True a streaming thread is alive
\* and still in its loop.
C27_Original ==
    is_streaming =>
        /\ ThreadAlive
        /\ pc[streaming_thread] \notin {"exiting", "except"}

\* C28: at most one streaming thread is alive at any time, whatever the
\* sequence of Start and Stop presses.
C28_AtMostOneThreadAlive == Cardinality(AliveThreads) <= 1

\* Start was pressed while the previous thread, its loop left, had not yet
\* ended: that thread is the session's thread and no other one was created
C28_Witness ==
    /\ is_streaming
    /\ streaming_thread # "none"
    /\ pc[streaming_thread] = "exiting"
    /\ AliveThreads = {streaming_thread}

(***************************************************************************)
(* Properties of the segment statistics, checked under SegSpec.            *)
(***************************************************************************)
\* the sum of field f over the entries of a statistics map
StatsTotal(stats, f) ==
    LET sum[names \in SUBSET DOMAIN stats] ==
            IF names = {} THEN 0
            ELSE LET seg == CHOOSE x \in names : TRUE
                 IN  stats[seg][f] + sum[names \ {seg}]
    IN  sum[DOMAIN stats]

\* segment_customers returned a segmentation
Segmented == seg_out.outcome = "returned" /\ Len(seg_out.rfm) > 0

\* C29: the statistics map is keyed by segment name, clusters of one name
\* being merged: its keys are the names of the RFM table, at most n_clusters
\* of them; the customer sets of its entries are pairwise disjoint; the
\* customer_count values sum to the number of customers of the RFM table
\* and the total_transactions values to the number of rows of the input.
C29_StatsPartitionCustomers ==
    Segmented =>
        LET stats == seg_out.segment_stats
        IN  /\ DOMAIN stats =
                   {seg_out.rfm[k].segment_name : k \in 1..Len(seg_out.rfm)}
            /\ Cardinality(DOMAIN stats) <= seg_out.n_clusters
            /\ \A a, b \in DOMAIN stats :
                   a # b => stats[a].customers \cap stats[b].customers = {}
            /\ \A a \in DOMAIN stats :
                   stats[a].customer_count = Cardinality(stats[a].customers)
            /\ StatsTotal(stats, "customer_count") = Len(seg_out.rfm)
            /\ StatsTotal(stats, "total_transactions") = Len(data)

\* two clusters got the same name and share one entry, next to another entry
C29_Witness ==
    /\ Segmented
    /\ \E j, k \in 1..Len(seg_out.rfm) :
           /\ seg_out.rfm[j].cluster # seg_out.rfm[k].cluster
           /\ seg_out.rfm[j].segment_name = seg_out.rfm[k].segment_name
    /\ Cardinality(DOMAIN seg_out.segment_stats) > 1

(***************************************************************************)
(* Properties of the report buttons, checked under ReportSpec.             *)
(***************************************************************************)
\* segment_customers returns the empty result for the table
SegmentationIsEmpty ==
    SegmentOutcomes(data, DefaultClusters) = {SegEmpty(DefaultClusters)}

\* C21, as stated: for a non-empty table on which segmentation returns the
\* empty result, the Customer Analysis Report button completes: no exception
\* leaves its handler.
C21_Original ==
    (Len(data) > 0 /\ SegmentationIsEmpty) => report_error = "none"

(***************************************************************************)
(* Properties of the analysis calls, checked under FrameSpec.              *)
(***************************************************************************)
\* C22: detect_anomalies, detect_real_time_anomalies, calculate_rfm_metrics,
\* segment_customers and calculate_metrics leave the caller's table as it
\* was: the same rows, the same columns, and no column assigned in place.
C22_CallsLeaveTableUnchanged ==
    [][data' = data /\ table_frame' = table_frame]_vars

\* all five have been called on a table of two customers, the segmentation
\* with success, and the table is as it was handed over
C22_Witness ==
    /\ Cardinality(CustomerIds(data)) = 2
    /\ \A method \in Methods : results[method].outcome = "returned"
    /\ rt_out.outcome = "returned"
    /\ rfm_out.outcome = "returned"
    /\ seg_out.outcome = "returned" /\ Len(seg_out.rfm) = 2
    /\ metrics_out.outcome = "returned" /\ ~metrics_out.metrics.trends.empty
    /\ table_frame = GivenFrame(absent)

(***************************************************************************)
(* Properties of calculate_metrics, checked under TrendSpec.               *)
(***************************************************************************)
MetricsCalled == metrics_out.outcome = "returned"

\* C30: for every table of at least 2 rows _calculate_trends reports
\* transaction_growth_percent = 0; with more than 4 rows the recent and the
\* older half have floor(n / 2) rows each, with 2 to 4 rows both are the
\* whole table and revenue_growth_percent is 0 as well.
C30_TransactionGrowthIsZero ==
    (MetricsCalled /\ Len(data) >= 2) =>
        LET trends == metrics_out.metrics.trends
            sorted == SortByTimestamp(data)
        IN  /\ ~trends.empty
            /\ trends.transaction_growth_percent = 0
            /\ Len(data) > 4 =>
                   /\ Len(RecentData(sorted)) = Len(data) \div 2
                   /\ Len(OlderData(sorted)) = Len(data) \div 2
            /\ Len(data) <= 4 =>
                   /\ RecentData(sorted) = sorted
                   /\ OlderData(sorted) = sorted
                   /\ trends.revenue_growth_percent = 0

\* calculate_metrics has run on a table of five rows whose revenue grew
C30_Witness ==
    /\ MetricsCalled
    /\ Len(data) = 5
    /\ metrics_out.metrics.trends.transaction_growth_percent = 0
    /\ metrics_out.metrics.trends.revenue_growth_percent > 0

(***************************************************************************)
(* Properties of the transaction identifiers, checked under GenSpec.       *)
(***************************************************************************)
\* C23, as stated: after any sequence of generate_data_batch calls no two
\* records of the table have the same transaction_id.
C23_Original ==
    \A i, j \in DOMAIN sales_data :
        i # j => sales_data[i].transaction_id # sales_data[j].transaction_id

(***************************************************************************)
(* Properties of _prepare_features on its own output, checked under        *)
(* CallSpec.                                                               *)
(***************************************************************************)
\* C24: feeding the output of _prepare_features back into it never raises:
\* the second call returns, and what it returns is the empty result, its
\* input having no timestamp, category, store_id or payment_method column.
C24_SecondCallReturnsEmpty ==
    features_out # NotCalled =>
        /\ features_out.first.outcome = "returned"
        /\ features_out.second.outcome = "returned"
        /\ Len(features_out.second.frame) = 0

\* the first call prepared the features of a table of several rows
C24_Witness ==
    /\ features_out # NotCalled
    /\ Len(data) > 1
    /\ Len(features_out.first.frame) = Len(data)
    /\ features_out.second.outcome = "returned"

====
